---- MODULE Spec2Model ----
(***************************************************************************)
(* Model of the banana-weather generation pipeline:                        *)
(*   backend/pkg/weather/service.go  Service.GetWeatherFlow, sanitizeID    *)
(*   pkg/genai                       Service.GenerateVideo (polling loop)  *)
(*   backend/pkg/database/client.go  Client.UpsertLocation / GetLocation   *)
(* Strings are sequences of one-character strings, so that lower-casing,   *)
(* per-character replacement and byte slicing are computed, not assumed.   *)
(* Time is counted in whole hours.                                         *)
(***************************************************************************)
EXTENDS Integers, Sequences, FiniteSets, TLC

\* ------------------------------------------------------------------ bounds
MaxClock == 4
MaxPolls == 2

\* -------------------------------------------------------- program constants
TTL == 3
SliceFrom == 5

\* ------------------------------------------------------------------ strings
Empty == << >>

UpperCase == <<"A","B","C","D","E","F","G","H","I","J","K","L","M",
               "N","O","P","Q","R","S","T","U","V","W","X","Y","Z">>
LowerCase == <<"a","b","c","d","e","f","g","h","i","j","k","l","m",
               "n","o","p","q","r","s","t","u","v","w","x","y","z">>
Digits == {"0","1","2","3","4","5","6","7","8","9"}

\* the Kelvin sign, a character written here by its code point
KelvinSign == "U+212A"

\* upper-case characters outside ASCII and what unicode.ToLower makes of
\* them: E with acute, and the Kelvin sign whose lower case is the ASCII
\* letter k
UpperOther == <<"É", KelvinSign>>
LowerOther == <<"é", "k">>

\* strings.ToLower, one character
ToLowerChar(c) ==
    IF \E i \in 1..26 : UpperCase[i] = c
    THEN LowerCase[CHOOSE i \in 1..26 : UpperCase[i] = c]
    ELSE IF \E i \in 1..Len(UpperOther) : UpperOther[i] = c
    THEN LowerOther[CHOOSE i \in 1..Len(UpperOther) : UpperOther[i] = c]
    ELSE c

IsAlnumLower(c) == (\E i \in 1..26 : LowerCase[i] = c) \/ c \in Digits

\* variant: the input is not lowercased before the characters are replaced
sanitizeIDKeepCase(s) ==
    [i \in 1..Len(s) |-> IF IsAlnumLower(s[i]) THEN s[i] ELSE "_"]

sanitizeID(s) ==
    [i \in 1..Len(s) |->
        IF IsAlnumLower(ToLowerChar(s[i])) THEN ToLowerChar(s[i]) ELSE "_"]

DefaultCity == <<"S","a","n"," ","F","r","a","n","c","i","s","c","o">>
QueryRio == <<"R","i","o">>
Coord == <<"1",".","5">>

NameRio == <<"R","i","o">>
NameRioLower == <<"r","i","o">>
NameLA == <<"L",".","A">>
Names == {NameRio, NameRioLower, NameLA}

ImgOld == <<"o","l","d",".","p","n","g">>
ImgNew == <<"n","e","w",".","p","n","g">>
VidOld == <<"o","l","d",".","m","p","4">>
GsImage == <<"g","s",":","/","/","b","/","i">>
Base64Data == <<"Q","U","I","=">>

RefGS == <<"g","s",":","/","/","b","/","v">>
RefAlt == <<"g","s",":","/","/","b","/","w">>
RefShort == <<"b","/","v">>

PublicPrefix == <<"h","t","t","p","s",":","/","/","s","t","o","r","a","g","e",".",
                  "g","o","o","g","l","e","a","p","i","s",".","c","o","m","/">>

\* ---------------------------------------------------------- location store
IDs == {sanitizeID(n) : n \in Names}

CatCity == <<"C","i","t","y">>

NilLoc ==
    [id |-> Empty, name |-> Empty, category |-> Empty, cityQuery |-> Empty,
     imageURL |-> Empty, videoURL |-> Empty, isPreset |-> FALSE, lastUpdated |-> 0]

\* records that earlier runs, presets or migrations may have left behind; the
\* clock starts at TTL hours, so a record is between 0 and TTL hours old
InitRecs ==
    { [id |-> sanitizeID(n), name |-> n,
       category |-> IF p THEN CatCity ELSE Empty, cityQuery |-> n,
       imageURL |-> ImgOld, videoURL |-> v, isPreset |-> p, lastUpdated |-> lu] :
         n \in {NameRio}, v \in {Empty, VidOld}, p \in BOOLEAN,
         lu \in 0..TTL }

EmptyStore == [i \in {} |-> NilLoc]

InitStores ==
    { EmptyStore } \cup { [i \in {r.id} |-> r] : r \in InitRecs }

\* variant: a record without an id is accepted
UpsertErrNoIdCheck(loc, dbOk) == ~dbOk

\* Client.UpsertLocation: the error result
UpsertErr(loc, dbOk) == loc.id = Empty \/ ~dbOk

\* variant: the write is merged into the existing document, so a field the
\* caller left empty keeps its old value
UpsertLocationMerge(st, loc, t, dbOk) ==
    IF UpsertErr(loc, dbOk) THEN st
    ELSE [i \in (DOMAIN st) \cup {loc.id} |->
            IF i # loc.id THEN st[i]
            ELSE IF i \in DOMAIN st /\ loc.videoURL = Empty
                 THEN [loc EXCEPT !.lastUpdated = t, !.videoURL = st[i].videoURL]
                 ELSE [loc EXCEPT !.lastUpdated = t]]

\* variant: the record is stored with the lastUpdated the caller put in it
UpsertLocationNoStamp(st, loc, t, dbOk) ==
    IF UpsertErr(loc, dbOk) THEN st
    ELSE [i \in (DOMAIN st) \cup {loc.id} |-> IF i = loc.id THEN loc ELSE st[i]]

\* variant: the document is merged field by field, an empty field of the
\* caller's record leaving the stored one as it is
UpsertLocationMergeAll(st, loc, t, dbOk) ==
    IF UpsertErr(loc, dbOk) THEN st
    ELSE [i \in (DOMAIN st) \cup {loc.id} |->
            IF i # loc.id THEN st[i]
            ELSE IF i \in DOMAIN st
                 THEN [loc EXCEPT !.lastUpdated = t,
                          !.imageURL = IF @ = Empty THEN st[i].imageURL ELSE @,
                          !.videoURL = IF @ = Empty THEN st[i].videoURL ELSE @,
                          !.category = IF @ = Empty THEN st[i].category ELSE @]
                 ELSE [loc EXCEPT !.lastUpdated = t]]

\* Client.UpsertLocation: the store after the call (the store stamps the time)
UpsertLocation(st, loc, t, dbOk) ==
    IF UpsertErr(loc, dbOk) THEN st
    ELSE [i \in (DOMAIN st) \cup {loc.id} |->
            IF i = loc.id THEN [loc EXCEPT !.lastUpdated = t] ELSE st[i]]

\* Client.GetLocation: err == nil
GetLocationOk(st, id, dbOk) == dbOk /\ id \in DOMAIN st

GetLocation(st, id, dbOk) == IF GetLocationOk(st, id, dbOk) THEN st[id] ELSE NilLoc

\* ------------------------------------------------------------- event trace
Entry(t, kind, city, img, url, lu, ok) ==
    [t |-> t, kind |-> kind, city |-> city, img |-> img, url |-> url,
     lu |-> lu, ok |-> ok]

Status == Entry("event", "status", Empty, Empty, Empty, -1, TRUE)
ErrorEv == Entry("event", "error", Empty, Empty, Empty, -1, TRUE)
VideoEv(url) == Entry("event", "video", Empty, Empty, url, -1, TRUE)
ResultEv(city, img, url, lu) == Entry("event", "result", city, img, url, lu, TRUE)
Call(kind, arg, ok) == Entry("call", kind, arg, Empty, Empty, -1, ok)

\* ------------------------------------------------- video operation responses
\* One answer of Operations.GetVideosOperation, after the JSON round trip of
\* GeneratedVideos[0]: the candidate fields the extraction looks at.
Resp(done, opErr, videos, gcsUri, videoUri, uri, hasVideoObj, vUri, vGcsUri, vVideoUri) ==
    [done |-> done, opErr |-> opErr, videos |-> videos,
     gcsUri |-> gcsUri, videoUri |-> videoUri, uri |-> uri,
     hasVideoObj |-> hasVideoObj, vUri |-> vUri, vGcsUri |-> vGcsUri,
     vVideoUri |-> vVideoUri]

NoResp == Resp(FALSE, FALSE, 0, Empty, Empty, Empty, FALSE, Empty, Empty, Empty)
RespOpErr == Resp(TRUE, TRUE, 0, Empty, Empty, Empty, FALSE, Empty, Empty, Empty)
RespNoVideos == Resp(TRUE, FALSE, 0, Empty, Empty, Empty, FALSE, Empty, Empty, Empty)
RespBlank == Resp(TRUE, FALSE, 1, Empty, Empty, Empty, TRUE, Empty, Empty, Empty)
RespGcsUri == Resp(TRUE, FALSE, 1, RefGS, Empty, Empty, FALSE, Empty, Empty, Empty)
RespVideoUri == Resp(TRUE, FALSE, 1, Empty, RefGS, Empty, FALSE, Empty, Empty, Empty)
RespUri == Resp(TRUE, FALSE, 1, Empty, Empty, RefShort, FALSE, Empty, Empty, Empty)
RespNested == Resp(TRUE, FALSE, 1, Empty, Empty, Empty, TRUE, RefGS, Empty, Empty)
RespNestedGcs == Resp(TRUE, FALSE, 1, Empty, Empty, Empty, TRUE, Empty, RefAlt, Empty)
RespBoth == Resp(TRUE, FALSE, 1, Empty, RefAlt, Empty, TRUE, RefGS, Empty, Empty)

PollResponses ==
    {NoResp, RespOpErr, RespNoVideos, RespBlank, RespGcsUri, RespVideoUri,
     RespUri, RespNested, RespNestedGcs, RespBoth}

\* variant: the nested video object is looked at before the top-level fields
ExtractURINestedFirst(m) ==
    LET top == IF m.gcsUri # Empty THEN m.gcsUri
               ELSE IF m.videoUri # Empty THEN m.videoUri
               ELSE m.uri
        nested == IF m.vUri # Empty THEN m.vUri
                  ELSE IF m.vGcsUri # Empty THEN m.vGcsUri
                  ELSE m.vVideoUri
    IN IF m.hasVideoObj /\ nested # Empty THEN nested
       ELSE top

\* GenerateVideo: tolerant extraction of the reference
ExtractURI(m) ==
    LET top == IF m.gcsUri # Empty THEN m.gcsUri
               ELSE IF m.videoUri # Empty THEN m.videoUri
               ELSE m.uri
        nested == IF m.vUri # Empty THEN m.vUri
                  ELSE IF m.vGcsUri # Empty THEN m.vGcsUri
                  ELSE m.vVideoUri
    IN IF top # Empty THEN top
       ELSE IF m.hasVideoObj THEN nested
       ELSE Empty

\* variant: a video without a reference counts as a success
DoneErrorSilent(op) ==
    IF op.opErr THEN "operation failed"
    ELSE IF op.videos = 0 THEN "no videos found"
    ELSE "none"

\* GenerateVideo: the error a finished operation yields ("none" on success)
DoneError(op) ==
    IF op.opErr THEN "operation failed"
    ELSE IF op.videos = 0 THEN "no videos found"
    ELSE IF ExtractURI(op) = Empty THEN "URI is empty"
    ELSE "none"

\* GenerateVideo: only the "URI is empty" error is formatted with the JSON of
\* the generated video; the other errors carry no part of the response.
ErrorCarriesRaw(e) == e = "URI is empty"

\* GetWeatherFlow: videoGsURI[5:] is a run-time panic on a shorter string
SliceOk(ref) == Len(ref) >= SliceFrom

PublicVideoURL(ref) == PublicPrefix \o SubSeq(ref, SliceFrom + 1, Len(ref))

\* variant: a record aged exactly TTL still counts as fresh
IsCacheHitInclusive(found, rec, t) == found /\ t - rec.lastUpdated <= TTL

\* GetWeatherFlow: the cache decision
IsCacheHit(found, rec, t) == found /\ t - rec.lastUpdated < TTL

\* variant: the video event is sent whether or not the record has a video
HitEventsAlwaysVideo(city, rec) ==
    <<Status, ResultEv(city, Empty, rec.imageURL, rec.lastUpdated),
      VideoEv(rec.videoURL)>>

\* variant: the video event is sent ahead of the result
HitEventsVideoFirst(city, rec) ==
    <<Status>>
      \o (IF rec.videoURL # Empty THEN <<VideoEv(rec.videoURL)>> ELSE << >>)
      \o <<ResultEv(city, Empty, rec.imageURL, rec.lastUpdated)>>

\* variant: the result of a cache hit carries no time
HitEventsZeroTime(city, rec) ==
    <<Status, ResultEv(city, Empty, rec.imageURL, -1)>>
      \o (IF rec.videoURL # Empty THEN <<VideoEv(rec.videoURL)>> ELSE << >>)

\* GetWeatherFlow: what a cache hit sends
HitEvents(city, rec) ==
    <<Status, ResultEv(city, Empty, rec.imageURL, rec.lastUpdated)>>
      \o (IF rec.videoURL # Empty THEN <<VideoEv(rec.videoURL)>> ELSE << >>)

UpsertCall(loc, dbOk) ==
    Entry("call", "UpsertLocation", loc.id, loc.imageURL, loc.videoURL, -1,
          ~UpsertErr(loc, dbOk))

\* -------------------------------------------------------------------- state
VARIABLES
    pc,            \* position of the run inside GetWeatherFlow
    ret,           \* "none" while running, then "nil" or "err"
    trace,         \* events sent through sendStatus and collaborator calls, in order
    store,         \* the locations collection: id -> record
    now,           \* the clock, in hours
    cancelled,     \* ctx.Done() is closed
    cityQuery, latStr, lngStr,   \* arguments of the run
    storageNil,    \* s.Storage == nil
    formattedCity, locID,
    cacheFound, cachedLoc, checkTime,   \* result and time of the cache lookup
    currentLoc, gsURI,
    videoGsURI, videoErr,    \* what GenerateVideo returned
    polls, pollFailed, lastPoll, lastResp,  \* the polling loop
    san,           \* sanitizeID applied to chosen strings
    jobs,          \* the operations running against the store, by job number
    lastWrite,     \* per id, the document of the latest accepted upsert
    load,          \* config.Load: the environment, the .env file and the result
    imagePrompt,   \* GenerateImage: the arguments and the prompt of each call
    batch          \* a command or handler of its own: a file loop, GetStats, HandleGetWeather

vars == <<pc, ret, trace, store, now, cancelled, cityQuery, latStr, lngStr,
          storageNil, formattedCity, locID, cacheFound, cachedLoc, checkTime,
          currentLoc, gsURI, videoGsURI, videoErr, polls, pollFailed,
          lastPoll, lastResp, san, jobs, lastWrite, load, imagePrompt, batch>>

args == <<cityQuery, latStr, lngStr, storageNil>>
lookupVars == <<locID, cacheFound, cachedLoc, checkTime>>
videoVars == <<videoGsURI, videoErr>>
pollVars == <<polls, pollFailed, lastPoll, lastResp>>
sideVars == <<load, imagePrompt, batch>>
others == <<san, jobs, lastWrite, sideVars>>

\* none of config.Load, the prompt selection or a file command is running
NoSide ==
    /\ load = << >>
    /\ imagePrompt = << >>
    /\ batch = << >>

Init ==
    /\ pc = "start"
    /\ ret = "none"
    /\ trace = << >>
    /\ store \in InitStores
    /\ now = TTL
    /\ cancelled = FALSE
    /\ cityQuery \in {Empty, QueryRio}
    /\ \E c \in {<<Empty, Empty>>, <<Coord, Coord>>, <<Coord, Empty>>} :
         latStr = c[1] /\ lngStr = c[2]
    /\ storageNil \in BOOLEAN
    /\ formattedCity = Empty
    /\ locID = Empty
    /\ cacheFound = FALSE
    /\ cachedLoc = NilLoc
    /\ checkTime = 0
    /\ currentLoc = NilLoc
    /\ gsURI = Empty
    /\ videoGsURI = Empty
    /\ videoErr = "unset"
    /\ polls = 0
    /\ pollFailed = FALSE
    /\ lastPoll = "none"
    /\ lastResp = NoResp
    /\ san = << >>
    /\ jobs = << >>
    /\ lastWrite = << >>
    /\ NoSide

\* ------------------------------------------------------------ GetWeatherFlow
\* variant: an empty city text is passed to the resolver as it is
ResolveLocationNoDefault ==
    /\ pc = "start"
    /\ \E ok \in BOOLEAN, name \in Names :
         LET useCoords == latStr # Empty /\ lngStr # Empty
             call == IF useCoords THEN Call("GetReverseGeocoding", latStr, ok)
                     ELSE Call("GetCityLocation", cityQuery, ok)
         IN IF ok
            THEN /\ trace' = trace \o <<Status, call, Status>>
                 /\ formattedCity' = name
                 /\ pc' = "cache"
                 /\ ret' = ret
            ELSE /\ trace' = trace \o <<Status, call, ErrorEv>>
                 /\ formattedCity' = formattedCity
                 /\ pc' = "done"
                 /\ ret' = "err"
    /\ UNCHANGED <<store, now, cancelled, args, others, lookupVars, currentLoc, gsURI,
                   videoVars, pollVars>>

\* 1. Resolve Location
ResolveLocation ==
    /\ pc = "start"
    /\ \E ok \in BOOLEAN, name \in Names :
         LET useCoords == latStr # Empty /\ lngStr # Empty
             q == IF cityQuery = Empty THEN DefaultCity ELSE cityQuery
             call == IF useCoords THEN Call("GetReverseGeocoding", latStr, ok)
                     ELSE Call("GetCityLocation", q, ok)
         IN IF ok
            THEN /\ trace' = trace \o <<Status, call, Status>>
                 /\ formattedCity' = name
                 /\ pc' = "cache"
                 /\ ret' = ret
            ELSE /\ trace' = trace \o <<Status, call, ErrorEv>>
                 /\ formattedCity' = formattedCity
                 /\ pc' = "done"
                 /\ ret' = "err"
    /\ UNCHANGED <<store, now, cancelled, args, others, lookupVars, currentLoc, gsURI,
                   videoVars, pollVars>>

\* variant: a cache hit writes the record back, which renews its lastUpdated
CacheCheckTouch ==
    /\ pc = "cache"
    /\ \E dbOk \in BOOLEAN :
         LET id == sanitizeID(formattedCity)
             found == GetLocationOk(store, id, dbOk)
             rec == GetLocation(store, id, dbOk)
             get == Call("GetLocation", id, found)
         IN /\ locID' = id
            /\ cacheFound' = found
            /\ cachedLoc' = rec
            /\ checkTime' = now
            /\ IF IsCacheHit(found, rec, now)
               THEN /\ trace' = trace \o <<get>> \o HitEvents(formattedCity, rec)
                    /\ store' = UpsertLocation(store, rec, now, TRUE)
                    /\ pc' = "done"
                    /\ ret' = "nil"
               ELSE /\ trace' = trace \o <<get, Status>>
                    /\ store' = store
                    /\ pc' = "genimage"
                    /\ ret' = ret
    /\ UNCHANGED <<now, cancelled, args, others, formattedCity, currentLoc, gsURI,
                   videoVars, pollVars>>

\* 2. Cache Check
CacheCheck ==
    /\ pc = "cache"
    /\ \E dbOk \in BOOLEAN :
         LET id == sanitizeID(formattedCity)
             found == GetLocationOk(store, id, dbOk)
             rec == GetLocation(store, id, dbOk)
             get == Call("GetLocation", id, found)
         IN /\ locID' = id
            /\ cacheFound' = found
            /\ cachedLoc' = rec
            /\ checkTime' = now
            /\ IF IsCacheHit(found, rec, now)
               THEN /\ trace' = trace \o <<get>> \o HitEvents(formattedCity, rec)
                    /\ pc' = "done"
                    /\ ret' = "nil"
               ELSE /\ trace' = trace \o <<get, Status>>
                    /\ pc' = "genimage"
                    /\ ret' = ret
    /\ UNCHANGED <<store, now, cancelled, args, others, formattedCity, currentLoc, gsURI,
                   videoVars, pollVars>>

\* variant: a failed image generation sends the error event but returns nil
GenerateImageStepSoft ==
    /\ pc = "genimage"
    /\ \E ok \in BOOLEAN :
         LET call == Call("GenerateImage", formattedCity, ok)
         IN IF ~ok
            THEN /\ trace' = trace \o <<call, ErrorEv>>
                 /\ pc' = "done"
                 /\ ret' = "nil"
            ELSE IF storageNil
            THEN /\ trace' = trace \o <<call, ResultEv(formattedCity, Base64Data, Empty, now)>>
                 /\ pc' = "done"
                 /\ ret' = "nil"
            ELSE /\ trace' = trace \o <<call, ResultEv(formattedCity, Base64Data, Empty, now), Status>>
                 /\ pc' = "upload"
                 /\ ret' = ret
    /\ UNCHANGED <<store, now, cancelled, args, others, formattedCity, lookupVars,
                   currentLoc, gsURI, videoVars, pollVars>>

\* variant: with storage configured the image is not sent before the upload
GenerateImageStepNoEarlyResult ==
    /\ pc = "genimage"
    /\ \E ok \in BOOLEAN :
         LET call == Call("GenerateImage", formattedCity, ok)
         IN IF ~ok
            THEN /\ trace' = trace \o <<call, ErrorEv>>
                 /\ pc' = "done"
                 /\ ret' = "err"
            ELSE IF storageNil
            THEN /\ trace' = trace \o <<call, ResultEv(formattedCity, Base64Data, Empty, now)>>
                 /\ pc' = "done"
                 /\ ret' = "nil"
            ELSE /\ trace' = trace \o <<call, Status>>
                 /\ pc' = "upload"
                 /\ ret' = ret
    /\ UNCHANGED <<store, now, cancelled, args, others, formattedCity, lookupVars,
                   currentLoc, gsURI, videoVars, pollVars>>

\* 3. Generate Image, send it, and stop there when there is no storage
GenerateImageStep ==
    /\ pc = "genimage"
    /\ \E ok \in BOOLEAN :
         LET call == Call("GenerateImage", formattedCity, ok)
         IN IF ~ok
            THEN /\ trace' = trace \o <<call, ErrorEv>>
                 /\ pc' = "done"
                 /\ ret' = "err"
            ELSE IF storageNil
            THEN /\ trace' = trace \o <<call, ResultEv(formattedCity, Base64Data, Empty, now)>>
                 /\ pc' = "done"
                 /\ ret' = "nil"
            ELSE /\ trace' = trace \o <<call, ResultEv(formattedCity, Base64Data, Empty, now), Status>>
                 /\ pc' = "upload"
                 /\ ret' = ret
    /\ UNCHANGED <<store, now, cancelled, args, others, formattedCity, lookupVars,
                   currentLoc, gsURI, videoVars, pollVars>>

\* variant: a failed upload is reported to the user as an error event
UploadStepLoud ==
    /\ pc = "upload"
    /\ \E ok \in BOOLEAN :
         LET call == Call("UploadImage", Base64Data, ok)
         IN IF ~ok
            THEN /\ trace' = trace \o <<call, ErrorEv>>
                 /\ pc' = "done"
                 /\ ret' = "nil"
                 /\ UNCHANGED <<gsURI, currentLoc>>
            ELSE /\ trace' = trace \o <<call>>
                 /\ pc' = "partial"
                 /\ ret' = ret
                 /\ gsURI' = GsImage
                 /\ currentLoc' = [id |-> locID, name |-> formattedCity,
                                   category |-> Empty, cityQuery |-> formattedCity,
                                   imageURL |-> ImgNew, videoURL |-> Empty,
                                   isPreset |-> FALSE, lastUpdated |-> now]
    /\ UNCHANGED <<store, now, cancelled, args, others, formattedCity, lookupVars,
                   videoVars, pollVars>>

\* 4. Upload Image
UploadStep ==
    /\ pc = "upload"
    /\ \E ok \in BOOLEAN :
         LET call == Call("UploadImage", Base64Data, ok)
         IN /\ trace' = trace \o <<call>>
            /\ IF ~ok
               THEN /\ pc' = "done"
                    /\ ret' = "nil"
                    /\ UNCHANGED <<gsURI, currentLoc>>
               ELSE /\ pc' = "partial"
                    /\ ret' = ret
                    /\ gsURI' = GsImage
                    /\ currentLoc' = [id |-> locID, name |-> formattedCity,
                                      category |-> Empty, cityQuery |-> formattedCity,
                                      imageURL |-> ImgNew, videoURL |-> Empty,
                                      isPreset |-> FALSE, lastUpdated |-> now]
    /\ UNCHANGED <<store, now, cancelled, args, others, formattedCity, lookupVars,
                   videoVars, pollVars>>

\* Upsert DB with Image URL (Partial Save)
PartialUpsert ==
    /\ pc = "partial"
    /\ \E dbOk \in BOOLEAN :
         /\ store' = UpsertLocation(store, currentLoc, now, dbOk)
         /\ trace' = trace \o <<UpsertCall(currentLoc, dbOk), Status>>
    /\ pc' = "submit"
    /\ UNCHANGED <<ret, now, cancelled, args, others, formattedCity, lookupVars,
                   currentLoc, gsURI, videoVars, pollVars>>

\* ------------------------------------------------------------- GenerateVideo
\* variant: the video is requested for the public URL of the image
VideoSubmitPublicURL ==
    /\ pc = "submit"
    /\ trace' = trace \o <<Call("GenerateVideo", currentLoc.imageURL, TRUE)>>
    /\ \E ok \in BOOLEAN :
         IF ok
         THEN /\ pc' = "polling"
              /\ UNCHANGED videoVars
         ELSE /\ pc' = "videoret"
              /\ videoErr' = "veo error"
              /\ videoGsURI' = Empty
    /\ UNCHANGED <<ret, store, now, cancelled, args, others, formattedCity, lookupVars,
                   currentLoc, gsURI, pollVars>>

\* Models.GenerateVideos: the submission
VideoSubmit ==
    /\ pc = "submit"
    /\ trace' = trace \o <<Call("GenerateVideo", gsURI, TRUE)>>
    /\ \E ok \in BOOLEAN :
         IF ok
         THEN /\ pc' = "polling"
              /\ UNCHANGED videoVars
         ELSE /\ pc' = "videoret"
              /\ videoErr' = "veo error"
              /\ videoGsURI' = Empty
    /\ UNCHANGED <<ret, store, now, cancelled, args, others, formattedCity, lookupVars,
                   currentLoc, gsURI, pollVars>>

\* variant: a cancelled context is reported as a failed operation
PollCancelledAsFailure ==
    /\ pc = "polling"
    /\ cancelled
    /\ pc' = "videoret"
    /\ videoErr' = "operation failed"
    /\ videoGsURI' = Empty
    /\ polls' = 0
    /\ lastPoll' = "ctx"
    /\ UNCHANGED <<ret, trace, store, now, cancelled, args, others, formattedCity,
                   lookupVars, currentLoc, gsURI, pollFailed, lastResp>>

\* select: case <-ctx.Done().  The deferred ticker.Stop() ends the ticker.
PollCancelled ==
    /\ pc = "polling"
    /\ cancelled
    /\ pc' = "videoret"
    /\ videoErr' = "context cancelled"
    /\ videoGsURI' = Empty
    /\ polls' = 0
    /\ lastPoll' = "ctx"
    /\ UNCHANGED <<ret, trace, store, now, cancelled, args, others, formattedCity,
                   lookupVars, currentLoc, gsURI, pollFailed, lastResp>>

\* variant: a poll that fails in the transport ends GenerateVideo with an error
PollTickAbortOnError ==
    /\ pc = "polling"
    /\ \E transportErr \in (IF cancelled THEN {TRUE} ELSE BOOLEAN),
          op \in PollResponses :
         IF transportErr
         THEN /\ pollFailed' = TRUE
              /\ lastPoll' = "err"
              /\ lastResp' = NoResp
              /\ pc' = "videoret"
              /\ polls' = 0
              /\ videoErr' = "polling failed"
              /\ videoGsURI' = Empty
         ELSE IF ~op.done
         THEN /\ lastPoll' = "pending"
              /\ lastResp' = op
              /\ pc' = "polling"
              /\ polls' = (polls + 1) % (MaxPolls + 1)
              /\ UNCHANGED <<pollFailed, videoVars>>
         ELSE /\ lastPoll' = "done"
              /\ lastResp' = op
              /\ pc' = "videoret"
              /\ polls' = 0
              /\ videoErr' = DoneError(op)
              /\ videoGsURI' = IF DoneError(op) = "none" THEN ExtractURI(op) ELSE Empty
              /\ UNCHANGED pollFailed
    /\ UNCHANGED <<ret, trace, store, now, cancelled, args, others, formattedCity,
                   lookupVars, currentLoc, gsURI>>

\* select: case <-ticker.C, one GetVideosOperation call.  A call made with a
\* context that is already done fails in the transport.  polls numbers the
\* ticks of the running ticker (it wraps, the loop itself has no bound).
PollTick ==
    /\ pc = "polling"
    /\ \E transportErr \in (IF cancelled THEN {TRUE} ELSE BOOLEAN),
          op \in PollResponses :
         IF transportErr
         THEN /\ pollFailed' = TRUE
              /\ lastPoll' = "err"
              /\ lastResp' = NoResp
              /\ pc' = "polling"
              /\ polls' = (polls + 1) % (MaxPolls + 1)
              /\ UNCHANGED videoVars
         ELSE IF ~op.done
         THEN /\ lastPoll' = "pending"
              /\ lastResp' = op
              /\ pc' = "polling"
              /\ polls' = (polls + 1) % (MaxPolls + 1)
              /\ UNCHANGED <<pollFailed, videoVars>>
         ELSE /\ lastPoll' = "done"
              /\ lastResp' = op
              /\ pc' = "videoret"
              /\ polls' = 0
              /\ videoErr' = DoneError(op)
              /\ videoGsURI' = IF DoneError(op) = "none" THEN ExtractURI(op) ELSE Empty
              /\ UNCHANGED pollFailed
    /\ UNCHANGED <<ret, trace, store, now, cancelled, args, others, formattedCity,
                   lookupVars, currentLoc, gsURI>>

\* ------------------------------------------- GetWeatherFlow, after the video
\* variant: a video failure is returned to the caller as an error
VideoReturnFatal ==
    /\ pc = "videoret"
    /\ IF videoErr # "none"
       THEN /\ trace' = trace \o <<ErrorEv>>
            /\ pc' = "done"
            /\ ret' = "err"
       ELSE IF ~SliceOk(videoGsURI)
       THEN /\ trace' = trace \o <<Status>>
            /\ pc' = "panic"
            /\ ret' = ret
       ELSE /\ trace' = trace \o <<Status, VideoEv(PublicVideoURL(videoGsURI))>>
            /\ pc' = "final"
            /\ ret' = ret
    /\ UNCHANGED <<store, now, cancelled, args, others, formattedCity, lookupVars,
                   currentLoc, gsURI, videoVars, pollVars>>

\* variant: the error branch lacks its return and goes on to "Finalizing video..."
VideoReturnFallThrough ==
    /\ pc = "videoret"
    /\ IF videoErr # "none"
       THEN /\ trace' = trace \o <<ErrorEv, Status>>
            /\ pc' = "done"
            /\ ret' = "nil"
       ELSE IF ~SliceOk(videoGsURI)
       THEN /\ trace' = trace \o <<Status>>
            /\ pc' = "panic"
            /\ ret' = ret
       ELSE /\ trace' = trace \o <<Status, VideoEv(PublicVideoURL(videoGsURI))>>
            /\ pc' = "final"
            /\ ret' = ret
    /\ UNCHANGED <<store, now, cancelled, args, others, formattedCity, lookupVars,
                   currentLoc, gsURI, videoVars, pollVars>>

\* error branch, or "Finalizing video..." and the video event
VideoReturn ==
    /\ pc = "videoret"
    /\ IF videoErr # "none"
       THEN /\ trace' = trace \o <<ErrorEv>>
            /\ pc' = "done"
            /\ ret' = "nil"
       ELSE IF ~SliceOk(videoGsURI)
       THEN /\ trace' = trace \o <<Status>>
            /\ pc' = "panic"
            /\ ret' = ret
       ELSE /\ trace' = trace \o <<Status, VideoEv(PublicVideoURL(videoGsURI))>>
            /\ pc' = "final"
            /\ ret' = ret
    /\ UNCHANGED <<store, now, cancelled, args, others, formattedCity, lookupVars,
                   currentLoc, gsURI, videoVars, pollVars>>

\* Final Upsert with Video URL
FinalUpsert ==
    /\ pc = "final"
    /\ \E dbOk \in BOOLEAN :
         LET loc == [currentLoc EXCEPT !.videoURL = PublicVideoURL(videoGsURI)]
         IN /\ currentLoc' = loc
            /\ store' = UpsertLocation(store, loc, now, dbOk)
            /\ trace' = trace \o <<UpsertCall(loc, dbOk)>>
    /\ pc' = "done"
    /\ ret' = "nil"
    /\ UNCHANGED <<now, cancelled, args, others, formattedCity, lookupVars, gsURI,
                   videoVars, pollVars>>

\* -------------------------------------------------------------- environment
Running == pc \notin {"done", "panic"}

\* the caller cancels the context (client disconnects).  ctx.Done() is read by
\* the polling loop only; a cancellation before the video stage shows as a
\* failing collaborator call or as a context that is done when polling starts.
Cancel ==
    /\ pc \in {"submit", "polling"}
    /\ ~cancelled
    /\ cancelled' = TRUE
    /\ UNCHANGED <<pc, ret, trace, store, now, args, others, formattedCity, lookupVars,
                   currentLoc, gsURI, videoVars, pollVars>>

\* an hour passes
ClockTick ==
    /\ Running
    /\ now < MaxClock
    /\ now' = now + 1
    /\ UNCHANGED <<pc, ret, trace, store, cancelled, args, others, formattedCity,
                   lookupVars, currentLoc, gsURI, videoVars, pollVars>>

Flow ==
    \/ ResolveLocation
    \/ CacheCheck
    \/ GenerateImageStep
    \/ UploadStep
    \/ PartialUpsert
    \/ VideoSubmit
    \/ PollCancelled
    \/ PollTick
    \/ VideoReturn
    \/ FinalUpsert

Next == Flow \/ Cancel \/ ClockTick

Spec == Init /\ [][Next]_vars

\* One request for a city with an empty store and storage configured.
FairInit ==
    /\ Init
    /\ store = EmptyStore
    /\ cityQuery = QueryRio
    /\ latStr = Empty
    /\ ~storageNil

\* The run is scheduled and the ticker fires every 5 seconds: an enabled step
\* of the run is eventually taken, and a select whose ctx.Done() case stays
\* ready eventually takes it.  Nothing obliges the caller to cancel, the
\* operation to finish or the clock of the model to advance.
FairSpec == FairInit /\ [][Next]_vars /\ WF_vars(Flow) /\ WF_vars(PollCancelled)

\* ------------------------------------------- extraction, over all responses
\* The done branch of the polling loop as a function of the response: every
\* finished operation whose candidate fields are empty or one of two
\* references, with and without a nested video object.
Refs == {Empty, RefGS, RefAlt}

DoneResponses ==
    {Resp(TRUE, e, n, a, b, c, TRUE, x, y, z) :
        e \in BOOLEAN, n \in 0..1, a \in Refs, b \in Refs, c \in Refs,
        x \in Refs, y \in Refs, z \in Refs}
    \cup
    {Resp(TRUE, e, n, a, b, c, FALSE, Empty, Empty, Empty) :
        e \in BOOLEAN, n \in 0..1, a \in Refs, b \in Refs, c \in Refs}

ExtractInit ==
    /\ pc = "polling"
    /\ ret = "none"
    /\ trace = << >>
    /\ store = EmptyStore
    /\ now = TTL
    /\ cancelled = FALSE
    /\ cityQuery = QueryRio
    /\ latStr = Empty
    /\ lngStr = Empty
    /\ storageNil = FALSE
    /\ formattedCity = NameRio
    /\ locID = sanitizeID(NameRio)
    /\ cacheFound = FALSE
    /\ cachedLoc = NilLoc
    /\ checkTime = TTL
    /\ currentLoc = NilLoc
    /\ gsURI = GsImage
    /\ videoGsURI = Empty
    /\ videoErr = "unset"
    /\ polls = 0
    /\ pollFailed = FALSE
    /\ lastPoll = "none"
    /\ lastResp \in DoneResponses
    /\ san = << >>
    /\ jobs = << >>
    /\ lastWrite = << >>
    /\ NoSide

\* case <-ticker.C with the answer lastResp: `if op.Done { ... }`
ExtractStep ==
    /\ pc = "polling"
    /\ lastPoll = "none"
    /\ pc' = "videoret"
    /\ lastPoll' = "done"
    /\ videoErr' = DoneError(lastResp)
    /\ videoGsURI' = IF DoneError(lastResp) = "none" THEN ExtractURI(lastResp)
                     ELSE Empty
    /\ UNCHANGED <<ret, trace, store, now, cancelled, args, others, formattedCity,
                   lookupVars, currentLoc, gsURI, polls, pollFailed, lastResp>>

ExtractSpec == ExtractInit /\ [][ExtractStep]_vars

\* ------------------------------------------------- sanitizeID, over strings
\* The strings of up to MaxLen characters over an alphabet with upper- and
\* lower-case letters, a digit, a space, an underscore and letters outside
\* ASCII, each paired with a string that differs from it in letter case only.
MaxLen == 3

Alphabet == {"A", "a", "Z", "7", " ", "_", "É", "é", KelvinSign}

\* <<upper, lower>> for the letters of the alphabet
CasePairs == {<<"A", "a">>, <<"Z", "z">>, <<"É", "é">>, <<KelvinSign, "k">>}

CaseVariantsOf(c) ==
    {c} \cup {p[2] : p \in {q \in CasePairs : q[1] = c}}
        \cup {p[1] : p \in {q \in CasePairs : q[2] = c}}

Strings == UNION {[1..n -> Alphabet] : n \in 0..MaxLen}

RECURSIVE CaseVariants(_)
CaseVariants(s) ==
    IF s = << >> THEN {<< >>}
    ELSE {<<c>> \o t : c \in CaseVariantsOf(Head(s)), t \in CaseVariants(Tail(s))}

IdleRun ==
    /\ pc = "start"
    /\ ret = "none"
    /\ trace = << >>
    /\ cancelled = FALSE
    /\ cityQuery = Empty
    /\ latStr = Empty
    /\ lngStr = Empty
    /\ storageNil = FALSE
    /\ formattedCity = Empty
    /\ locID = Empty
    /\ cacheFound = FALSE
    /\ cachedLoc = NilLoc
    /\ checkTime = 0
    /\ currentLoc = NilLoc
    /\ gsURI = Empty
    /\ videoGsURI = Empty
    /\ videoErr = "unset"
    /\ polls = 0
    /\ pollFailed = FALSE
    /\ lastPoll = "none"
    /\ lastResp = NoResp

runVars == <<pc, ret, trace, cancelled, args, formattedCity, lookupVars,
             currentLoc, gsURI, videoVars, pollVars>>

SanInit ==
    /\ IdleRun
    /\ store = EmptyStore
    /\ now = TTL
    /\ jobs = << >>
    /\ lastWrite = << >>
    /\ NoSide
    /\ \E a \in Strings : \E b \in CaseVariants(a) :
         san = [a |-> a, b |-> b, ida |-> Empty, idb |-> Empty,
                again |-> Empty, done |-> FALSE]

\* locID := sanitizeID(formattedCity), for both strings and for the id itself
Sanitize ==
    /\ ~san.done
    /\ san' = [san EXCEPT !.ida = sanitizeID(san.a),
                          !.idb = sanitizeID(san.b),
                          !.again = sanitizeID(sanitizeID(san.a)),
                          !.done = TRUE]
    /\ UNCHANGED <<runVars, sideVars, store, now, jobs, lastWrite>>

SanSpec == SanInit /\ [][Sanitize]_vars

\* ---------------------------------------------- operations on the store
\* Two operations run side by side against one store: requests served by
\* GetWeatherFlow, rows of `generate --csv`, `generate` in single mode, legacy
\* presets imported by `migrate`, and `admin refresh`.  Each operation is cut
\* at its calls to the store; what lies between two calls is one step.
JobIds == {1, 2}

RioID == sanitizeID(NameRio)
RowName == <<"R","I","O">>
CatNew == <<"N","e","w">>
General == <<"G","e","n","e","r","a","l">>

\* the public URLs of the image and of the video that job j generates
JobImg(j) == <<"i","m","g">> \o (IF j = 1 THEN <<"1">> ELSE <<"2">>)
JobVid(j) == <<"v","i","d">> \o (IF j = 1 THEN <<"1">> ELSE <<"2">>)

MkJob(kind, id, category, force) ==
    [kind |-> kind, pc |-> "lookup", id |-> id,
     name |-> IF kind = "flow" THEN NameRio ELSE RowName,
     category |-> category, city |-> QueryRio, force |-> force,
     found |-> FALSE, seen |-> NilLoc, loc |-> NilLoc, calls |-> << >>,
     upserts |-> << >>,
     ret |-> "none"]

JobInputs ==
    {MkJob("flow", Empty, Empty, FALSE)}
    \cup {MkJob(k, i, CatNew, f) :
            k \in {"batch", "single"}, i \in {Empty, RioID}, f \in BOOLEAN}
    \cup {MkJob("migrate", i, c, FALSE) : i \in {Empty, RioID}, c \in {Empty, CatCity}}
    \cup {MkJob("refresh", i, Empty, FALSE) : i \in {Empty, RioID}}

\* the store before the operations: empty, or one record that is TTL hours
\* old or new
OpsStores ==
    {EmptyStore}
    \cup {[i \in {r.id} |-> r] : r \in {q \in InitRecs : q.lastUpdated \in {0, TTL}}}

OpsInit ==
    /\ IdleRun
    /\ san = << >>
    /\ store \in OpsStores
    /\ now = TTL
    /\ lastWrite = << >>
    /\ NoSide
    /\ jobs \in [JobIds -> JobInputs]

\* the latest accepted upsert of each id: the record as the caller passed it,
\* the time of the write and the job that made it
RecordWrite(lw, j, loc, t, dbOk) ==
    IF UpsertErr(loc, dbOk) THEN lw
    ELSE [i \in (DOMAIN lw) \cup {loc.id} |->
            IF i = loc.id THEN [loc |-> loc, at |-> t, by |-> j] ELSE lw[i]]

UpsertEntry(loc, t, dbOk) == [loc |-> loc, ok |-> ~UpsertErr(loc, dbOk), at |-> t]

\* GetWeatherFlow: 2. Cache Check
FlowCheck(j) ==
    /\ jobs[j].kind = "flow"
    /\ jobs[j].pc = "lookup"
    /\ \E dbOk \in BOOLEAN :
         LET id == sanitizeID(jobs[j].name)
             found == GetLocationOk(store, id, dbOk)
             rec == GetLocation(store, id, dbOk)
             hit == IsCacheHit(found, rec, now)
         IN jobs' = [jobs EXCEPT ![j].id = id, ![j].found = found,
                                 ![j].seen = rec, ![j].loc = rec,
                                 ![j].pc = IF hit THEN "done" ELSE "generate",
                                 ![j].ret = IF hit THEN "nil" ELSE "none"]
    /\ UNCHANGED <<runVars, sideVars, san, store, now, lastWrite>>

\* GetWeatherFlow: 3. Generate Image, and the upload
FlowImage(j) ==
    /\ jobs[j].kind = "flow"
    /\ jobs[j].pc = "generate"
    /\ \E out \in {"image failed", "no storage", "upload failed", "ok"} :
         jobs' = [jobs EXCEPT
            ![j].calls = @ \o (IF out \in {"image failed", "no storage"}
                               THEN <<"GenerateImage">>
                               ELSE <<"GenerateImage", "UploadImage">>),
            ![j].loc = IF out = "ok"
                       THEN [id |-> jobs[j].id, name |-> jobs[j].name,
                             category |-> Empty, cityQuery |-> jobs[j].name,
                             imageURL |-> JobImg(j), videoURL |-> Empty,
                             isPreset |-> FALSE, lastUpdated |-> now]
                       ELSE @,
            ![j].pc = IF out = "ok" THEN "partial" ELSE "done",
            ![j].ret = IF out = "ok" THEN "none"
                       ELSE IF out = "image failed" THEN "err" ELSE "nil"]
    /\ UNCHANGED <<runVars, sideVars, san, store, now, lastWrite>>

\* GetWeatherFlow: Upsert DB with Image URL (Partial Save)
FlowPartial(j) ==
    /\ jobs[j].kind = "flow"
    /\ jobs[j].pc = "partial"
    /\ \E dbOk \in BOOLEAN :
         /\ store' = UpsertLocation(store, jobs[j].loc, now, dbOk)
         /\ lastWrite' = RecordWrite(lastWrite, j, jobs[j].loc, now, dbOk)
         /\ jobs' = [jobs EXCEPT
               ![j].upserts = Append(@, UpsertEntry(jobs[j].loc, now, dbOk)),
               ![j].pc = "video"]
    /\ UNCHANGED <<runVars, sideVars, san, now>>

\* GetWeatherFlow: Call Veo; a reference shorter than 5 bytes ends the run in
\* the slice
FlowVideo(j) ==
    /\ jobs[j].kind = "flow"
    /\ jobs[j].pc = "video"
    /\ \E out \in {"video failed", "short reference", "ok"} :
         jobs' = [jobs EXCEPT
            ![j].calls = Append(@, "GenerateVideo"),
            ![j].pc = IF out = "ok" THEN "final" ELSE "done",
            ![j].ret = IF out = "ok" THEN "none"
                       ELSE IF out = "video failed" THEN "nil" ELSE "panic"]
    /\ UNCHANGED <<runVars, sideVars, san, store, now, lastWrite>>

\* GetWeatherFlow: Final Upsert with Video URL
FlowFinal(j) ==
    /\ jobs[j].kind = "flow"
    /\ jobs[j].pc = "final"
    /\ \E dbOk \in BOOLEAN :
         LET loc == [jobs[j].loc EXCEPT !.videoURL = JobVid(j)]
         IN /\ store' = UpsertLocation(store, loc, now, dbOk)
            /\ lastWrite' = RecordWrite(lastWrite, j, loc, now, dbOk)
            /\ jobs' = [jobs EXCEPT
                  ![j].loc = loc,
                  ![j].upserts = Append(@, UpsertEntry(loc, now, dbOk)),
                  ![j].pc = "done",
                  ![j].ret = "nil"]
    /\ UNCHANGED <<runVars, sideVars, san, now>>

\* variant: generation is not skipped for an existing record
PresetLookupNoSkip(j) ==
    /\ jobs[j].kind \in {"batch", "single"}
    /\ jobs[j].pc = "lookup"
    /\ IF jobs[j].kind = "single"
          /\ (jobs[j].city = Empty \/ jobs[j].name = Empty \/ jobs[j].id = Empty)
       THEN jobs' = [jobs EXCEPT ![j].pc = "done", ![j].ret = "exit"]
       ELSE \E dbOk \in BOOLEAN :
              jobs' = [jobs EXCEPT
                    ![j].found = GetLocationOk(store, jobs[j].id, dbOk),
                    ![j].seen = GetLocation(store, jobs[j].id, dbOk),
                    ![j].pc = "generate"]
    /\ UNCHANGED <<runVars, sideVars, san, store, now, lastWrite>>

\* runBatchMode, one row of four or more fields, and runSingleMode: the
\* required flags and Check Existing
PresetLookup(j) ==
    /\ jobs[j].kind \in {"batch", "single"}
    /\ jobs[j].pc = "lookup"
    /\ IF jobs[j].kind = "single"
          /\ (jobs[j].city = Empty \/ jobs[j].name = Empty \/ jobs[j].id = Empty)
       THEN jobs' = [jobs EXCEPT ![j].pc = "done", ![j].ret = "exit"]
       ELSE \E dbOk \in BOOLEAN :
              LET exists == GetLocationOk(store, jobs[j].id, dbOk)
                  existing == GetLocation(store, jobs[j].id, dbOk)
              IN jobs' = [jobs EXCEPT
                    ![j].found = exists,
                    ![j].seen = existing,
                    ![j].loc = IF exists /\ ~jobs[j].force
                               THEN [existing EXCEPT !.name = jobs[j].name,
                                                     !.category = jobs[j].category,
                                                     !.isPreset = TRUE]
                               ELSE @,
                    ![j].pc = IF exists /\ ~jobs[j].force THEN "patch" ELSE "generate"]
    /\ UNCHANGED <<runVars, sideVars, san, store, now, lastWrite>>

\* exists && !force: the metadata patch
PresetPatch(j) ==
    /\ jobs[j].kind \in {"batch", "single"}
    /\ jobs[j].pc = "patch"
    /\ \E dbOk \in BOOLEAN :
         /\ store' = UpsertLocation(store, jobs[j].loc, now, dbOk)
         /\ lastWrite' = RecordWrite(lastWrite, j, jobs[j].loc, now, dbOk)
         /\ jobs' = [jobs EXCEPT
               ![j].upserts = Append(@, UpsertEntry(jobs[j].loc, now, dbOk)),
               ![j].pc = "done",
               ![j].ret = IF UpsertErr(jobs[j].loc, dbOk) /\ jobs[j].kind = "single"
                          THEN "fatal" ELSE "ok"]
    /\ UNCHANGED <<runVars, sideVars, san, now>>

\* variant: when only the video fails the preset is saved with its image
PresetGenerateKeepsImage(j) ==
    /\ jobs[j].kind \in {"batch", "single"}
    /\ jobs[j].pc = "generate"
    /\ \E out \in {"image failed", "upload failed", "video failed", "ok"} :
         jobs' = [jobs EXCEPT
            ![j].calls = @ \o (IF out = "image failed" THEN <<"GenerateImage">>
                               ELSE IF out = "upload failed"
                               THEN <<"GenerateImage", "UploadImage">>
                               ELSE <<"GenerateImage", "UploadImage", "GenerateVideo">>),
            ![j].loc = IF out \in {"ok", "video failed"}
                       THEN [id |-> jobs[j].id, name |-> jobs[j].name,
                             category |-> jobs[j].category,
                             cityQuery |-> jobs[j].city,
                             imageURL |-> JobImg(j),
                             videoURL |-> IF out = "ok" THEN JobVid(j) ELSE Empty,
                             isPreset |-> TRUE, lastUpdated |-> 0]
                       ELSE @,
            ![j].pc = IF out \in {"ok", "video failed"} THEN "write" ELSE "done",
            ![j].ret = IF out \in {"ok", "video failed"} THEN "none"
                       ELSE IF jobs[j].kind = "single" THEN "fatal" ELSE "ok"]
    /\ UNCHANGED <<runVars, sideVars, san, store, now, lastWrite>>

\* processPreset
PresetGenerate(j) ==
    /\ jobs[j].kind \in {"batch", "single"}
    /\ jobs[j].pc = "generate"
    /\ \E out \in {"image failed", "upload failed", "video failed", "ok"} :
         jobs' = [jobs EXCEPT
            ![j].calls = @ \o (IF out = "image failed" THEN <<"GenerateImage">>
                               ELSE IF out = "upload failed"
                               THEN <<"GenerateImage", "UploadImage">>
                               ELSE <<"GenerateImage", "UploadImage", "GenerateVideo">>),
            ![j].loc = IF out = "ok"
                       THEN [id |-> jobs[j].id, name |-> jobs[j].name,
                             category |-> jobs[j].category,
                             cityQuery |-> jobs[j].city,
                             imageURL |-> JobImg(j), videoURL |-> JobVid(j),
                             isPreset |-> TRUE, lastUpdated |-> 0]
                       ELSE @,
            ![j].pc = IF out = "ok" THEN "write" ELSE "done",
            ![j].ret = IF out = "ok" THEN "none"
                       ELSE IF jobs[j].kind = "single" THEN "fatal" ELSE "ok"]
    /\ UNCHANGED <<runVars, sideVars, san, store, now, lastWrite>>

\* the upsert of the generated preset
PresetWrite(j) ==
    /\ jobs[j].kind \in {"batch", "single"}
    /\ jobs[j].pc = "write"
    /\ \E dbOk \in BOOLEAN :
         /\ store' = UpsertLocation(store, jobs[j].loc, now, dbOk)
         /\ lastWrite' = RecordWrite(lastWrite, j, jobs[j].loc, now, dbOk)
         /\ jobs' = [jobs EXCEPT
               ![j].upserts = Append(@, UpsertEntry(jobs[j].loc, now, dbOk)),
               ![j].pc = "done",
               ![j].ret = IF UpsertErr(jobs[j].loc, dbOk) /\ jobs[j].kind = "single"
                          THEN "fatal" ELSE "ok"]
    /\ UNCHANGED <<runVars, sideVars, san, now>>

\* runMigrate: one legacy preset
MigrateWrite(j) ==
    /\ jobs[j].kind = "migrate"
    /\ jobs[j].pc = "lookup"
    /\ \E dbOk \in BOOLEAN :
         LET loc == [id |-> jobs[j].id, name |-> jobs[j].name,
                     category |-> IF jobs[j].category = Empty THEN General
                                  ELSE jobs[j].category,
                     cityQuery |-> jobs[j].name,
                     imageURL |-> ImgOld, videoURL |-> VidOld,
                     isPreset |-> TRUE, lastUpdated |-> 0]
         IN /\ store' = UpsertLocation(store, loc, now, dbOk)
            /\ lastWrite' = RecordWrite(lastWrite, j, loc, now, dbOk)
            /\ jobs' = [jobs EXCEPT
                  ![j].loc = loc,
                  ![j].upserts = Append(@, UpsertEntry(loc, now, dbOk)),
                  ![j].pc = "done",
                  ![j].ret = "ok"]
    /\ UNCHANGED <<runVars, sideVars, san, now>>

\* variant: a record that is still fresh is left as it is
RefreshLookupHonoursTTL(j) ==
    /\ jobs[j].kind = "refresh"
    /\ jobs[j].pc = "lookup"
    /\ IF jobs[j].id = Empty
       THEN jobs' = [jobs EXCEPT ![j].pc = "done", ![j].ret = "fatal"]
       ELSE \E dbOk \in BOOLEAN :
              LET found == GetLocationOk(store, jobs[j].id, dbOk)
                  rec == GetLocation(store, jobs[j].id, dbOk)
                  fresh == IsCacheHit(found, rec, now)
              IN jobs' = [jobs EXCEPT
                    ![j].found = found,
                    ![j].seen = rec,
                    ![j].loc = rec,
                    ![j].pc = IF found /\ ~fresh THEN "generate" ELSE "done",
                    ![j].ret = IF ~found THEN "fatal"
                               ELSE IF fresh THEN "ok" ELSE "none"]
    /\ UNCHANGED <<runVars, sideVars, san, store, now, lastWrite>>

\* refreshCmd and runRefresh: the id flag and the lookup
RefreshLookup(j) ==
    /\ jobs[j].kind = "refresh"
    /\ jobs[j].pc = "lookup"
    /\ IF jobs[j].id = Empty
       THEN jobs' = [jobs EXCEPT ![j].pc = "done", ![j].ret = "fatal"]
       ELSE \E dbOk \in BOOLEAN :
              LET found == GetLocationOk(store, jobs[j].id, dbOk)
              IN jobs' = [jobs EXCEPT
                    ![j].found = found,
                    ![j].seen = GetLocation(store, jobs[j].id, dbOk),
                    ![j].loc = GetLocation(store, jobs[j].id, dbOk),
                    ![j].pc = IF found THEN "generate" ELSE "done",
                    ![j].ret = IF found THEN "none" ELSE "fatal"]
    /\ UNCHANGED <<runVars, sideVars, san, store, now, lastWrite>>

\* runRefresh: image, upload and video, each fatal when it fails
RefreshGenerate(j) ==
    /\ jobs[j].kind = "refresh"
    /\ jobs[j].pc = "generate"
    /\ \E out \in {"image failed", "upload failed", "video failed", "ok"} :
         jobs' = [jobs EXCEPT
            ![j].calls = @ \o (IF out = "image failed" THEN <<"GenerateImage">>
                               ELSE IF out = "upload failed"
                               THEN <<"GenerateImage", "UploadImage">>
                               ELSE <<"GenerateImage", "UploadImage", "GenerateVideo">>),
            ![j].loc = IF out = "ok"
                       THEN [@ EXCEPT !.imageURL = JobImg(j), !.videoURL = JobVid(j)]
                       ELSE @,
            ![j].pc = IF out = "ok" THEN "write" ELSE "done",
            ![j].ret = IF out = "ok" THEN "none" ELSE "fatal"]
    /\ UNCHANGED <<runVars, sideVars, san, store, now, lastWrite>>

\* runRefresh: Update DB
RefreshWrite(j) ==
    /\ jobs[j].kind = "refresh"
    /\ jobs[j].pc = "write"
    /\ \E dbOk \in BOOLEAN :
         LET loc == [jobs[j].loc EXCEPT !.lastUpdated = now]
         IN /\ store' = UpsertLocation(store, loc, now, dbOk)
            /\ lastWrite' = RecordWrite(lastWrite, j, loc, now, dbOk)
            /\ jobs' = [jobs EXCEPT
                  ![j].loc = loc,
                  ![j].upserts = Append(@, UpsertEntry(loc, now, dbOk)),
                  ![j].pc = "done",
                  ![j].ret = IF UpsertErr(loc, dbOk) THEN "fatal" ELSE "ok"]
    /\ UNCHANGED <<runVars, sideVars, san, now>>

\* time passes while an operation is under way
OpsTick ==
    /\ \E j \in JobIds : jobs[j].pc # "done"
    /\ now < MaxClock
    /\ now' = now + 1
    /\ UNCHANGED <<runVars, sideVars, san, store, jobs, lastWrite>>

OpsNext ==
    \/ \E j \in JobIds :
          \/ FlowCheck(j) \/ FlowImage(j) \/ FlowPartial(j) \/ FlowVideo(j)
          \/ FlowFinal(j)
          \/ PresetLookup(j) \/ PresetPatch(j) \/ PresetGenerate(j) \/ PresetWrite(j)
          \/ MigrateWrite(j)
          \/ RefreshLookup(j) \/ RefreshGenerate(j) \/ RefreshWrite(j)
    \/ OpsTick

OpsSpec == OpsInit /\ [][OpsNext]_vars

\* ------------------------------------------------------------------ helpers
Events == SelectSeq(trace, LAMBDA e : e.t = "event")
Calls == SelectSeq(trace, LAMBDA e : e.t = "call")
CountKind(seq, k) == Cardinality({i \in 1..Len(seq) : seq[i].kind = k})
Kinds(seq) == [i \in 1..Len(seq) |-> seq[i].kind]
CallFailed(k) == \E i \in 1..Len(trace) :
                    trace[i].t = "call" /\ trace[i].kind = k /\ ~trace[i].ok
CallOk(k) == \E i \in 1..Len(trace) :
                    trace[i].t = "call" /\ trace[i].kind = k /\ trace[i].ok

TypeOK ==
    /\ pc \in {"start", "cache", "genimage", "upload", "partial", "submit",
               "polling", "videoret", "final", "done", "panic"}
    /\ ret \in {"none", "nil", "err"}
    /\ now \in TTL..MaxClock
    /\ polls \in 0..MaxPolls

\* the cache lookup of this run has been made
Checked == pc \notin {"start", "cache"} /\ CountKind(Calls, "GetLocation") = 1

\* the lookup returned a record younger than three hours
FreshRecordSeen == cacheFound /\ checkTime - cachedLoc.lastUpdated < TTL

\* ------------------------------------------------------------------- claims
\* C1: cache hit.  When the lookup of the derived id returns a record whose
\* lastUpdated is less than 3 hours old, the run calls neither GenerateImage
\* nor GenerateVideo, sends exactly one result event, sends exactly one video
\* event iff the record's videoURL is non-empty, and returns nil.
C1_CacheHit ==
    (Checked /\ FreshRecordSeen) =>
        /\ pc = "done"
        /\ ret = "nil"
        /\ CountKind(Calls, "GenerateImage") = 0
        /\ CountKind(Calls, "GenerateVideo") = 0
        /\ CountKind(Events, "result") = 1
        /\ CountKind(Events, "video") = (IF cachedLoc.videoURL # Empty THEN 1 ELSE 0)

C1_Witness ==
    /\ Checked /\ FreshRecordSeen
    /\ cachedLoc.videoURL = Empty
    /\ CountKind(Events, "result") = 1
    /\ CountKind(Events, "video") = 0

C3_EventOrder ==
    LET ev == Events
    IN /\ \A i \in 1..Len(ev) : ev[i].kind \in {"status", "result", "video", "error"}
       /\ CountKind(ev, "result") <= 1
       /\ CountKind(ev, "video") <= 1
       /\ \A i \in 1..Len(ev) :
             ev[i].kind = "video" =>
                 /\ i = Len(ev)
                 /\ \E j \in 1..(i - 1) : ev[j].kind = "result"
       /\ \A i \in 1..Len(ev) :
             ev[i].kind = "result" => \A j \in 1..(i - 1) : ev[j].kind = "status"
       /\ \A i, j \in 1..Len(ev) :
             (i < j /\ ev[i].kind = "result" /\ ev[j].kind # "status") => j = Len(ev)

C3_Witness ==
    /\ pc = "done"
    /\ CountKind(Events, "video") = 1
    /\ CountKind(Calls, "GenerateVideo") = 1
    /\ Kinds(Events)[Len(Events)] = "video"

\* the run is over: it returned, or it was aborted by a run-time panic
Finished == pc \in {"done", "panic"}

ResolveFailed == CallFailed("GetReverseGeocoding") \/ CallFailed("GetCityLocation")
ImageFailed == CallFailed("GenerateImage")
UploadFailed == CallFailed("UploadImage")
VideoFailed == videoErr \notin {"unset", "none"}

\* C4: end-to-end cache miss.  With a city query, no usable cached record and
\* every collaborator succeeding, the run sends exactly status, status, status,
\* result, status, status, status, video, returns nil, and the stored record
\* of the derived id has both imageURL and videoURL.
C4_EndToEndMiss ==
    (/\ Finished
     /\ ~(latStr # Empty /\ lngStr # Empty)
     /\ Checked /\ ~FreshRecordSeen
     /\ ~storageNil
     /\ \A i \in 1..Len(Calls) : Calls[i].kind # "GetLocation" => Calls[i].ok
     /\ videoErr = "none")
    =>
        /\ Kinds(Events) = <<"status", "status", "status", "result",
                              "status", "status", "status", "video">>
        /\ ret = "nil"
        /\ locID \in DOMAIN store
        /\ store[locID].imageURL # Empty
        /\ store[locID].videoURL # Empty

C6_FatalFailures ==
    /\ (ret = "err") <=> (ResolveFailed \/ ImageFailed)
    /\ (ResolveFailed \/ ImageFailed) =>
          /\ pc = "done"
          /\ CountKind(Events, "error") = 1
          /\ CountKind(Events, "result") = 0
          /\ CountKind(Events, "video") = 0
          /\ CountKind(Calls, "UploadImage") = 0
          /\ CountKind(Calls, "UpsertLocation") = 0
          /\ CountKind(Calls, "GenerateVideo") = 0
          /\ trace[Len(trace)].kind = "error"
    /\ ResolveFailed =>
          /\ CountKind(Calls, "GetLocation") = 0
          /\ CountKind(Calls, "GenerateImage") = 0

C6_Witness ==
    /\ ret = "err"
    /\ ImageFailed
    /\ CountKind(Events, "error") = 1

\* none of the candidate fields of a finished operation holds a reference
NoCandidate(m) ==
    /\ m.gcsUri = Empty /\ m.videoUri = Empty /\ m.uri = Empty
    /\ (~m.hasVideoObj \/ (m.vUri = Empty /\ m.vGcsUri = Empty /\ m.vVideoUri = Empty))

\* C7: soft video failure.  Whenever GenerateVideo returns an error
\* (submission error, operation error, done without an extractable reference,
\* cancellation) the run sends one error event after the result event, sends
\* no video event, makes no final upsert and returns nil.
C7_SoftVideoFailure ==
    /\ (pc = "done" /\ VideoFailed) =>
          /\ ret = "nil"
          /\ CountKind(Events, "error") = 1
          /\ CountKind(Events, "result") = 1
          /\ CountKind(Events, "video") = 0
          /\ trace[Len(trace)].kind = "error"
          /\ CountKind(Calls, "UpsertLocation") = 1
          /\ currentLoc.videoURL = Empty
    /\ (pc \in {"videoret", "final", "done", "panic"} /\ lastPoll = "done"
          /\ videoErr # "context cancelled"
          /\ (lastResp.opErr \/ lastResp.videos = 0 \/ NoCandidate(lastResp)))
         => VideoFailed

C7_Witness ==
    /\ pc = "done"
    /\ videoErr = "URI is empty"
    /\ CountKind(Events, "error") = 1

\* C8: a failed upload is soft: no error event, GenerateVideo is never
\* called, and the run returns nil.
C8_UploadSoft ==
    UploadFailed =>
        /\ pc = "done"
        /\ ret = "nil"
        /\ CountKind(Events, "result") = 1
        /\ CountKind(Events, "error") = 0
        /\ CountKind(Calls, "GenerateVideo") = 0

C8_Witness ==
    /\ UploadFailed
    /\ CountKind(Events, "result") = 1
    /\ ret = "nil"

\* the candidate fields of a response
Candidates(m) ==
    {m.gcsUri, m.videoUri, m.uri} \cup
    (IF m.hasVideoObj THEN {m.vUri, m.vGcsUri, m.vVideoUri} ELSE {})

\* C9: in the polling loop a poll that fails in the transport never ends the
\* loop; only a finished operation or the cancellation of the context ends
\* it; and a poll that reports done with a reference after earlier polls
\* failed still returns that reference.
C9_PollStep ==
    pc = "polling" =>
        /\ (polls' # polls /\ lastPoll' = "err") =>
              (pc' = "polling" /\ UNCHANGED videoVars)
        /\ pc' # "polling" =>
              \/ (lastPoll' = "done" /\ lastResp'.done)
              \/ (lastPoll' = "ctx" /\ cancelled /\ videoErr' = "context cancelled")
        /\ (pollFailed /\ pc' # "polling" /\ lastPoll' = "done"
              /\ ~lastResp'.opErr /\ lastResp'.videos > 0 /\ ~NoCandidate(lastResp')) =>
              /\ videoErr' = "none"
              /\ videoGsURI' # Empty
              /\ videoGsURI' \in Candidates(lastResp')

C9_PollErrorsDoNotEndLoop == [][C9_PollStep]_vars

C9_Witness ==
    /\ pc = "videoret"
    /\ pollFailed
    /\ lastPoll = "done"
    /\ videoErr = "none"
    /\ videoGsURI = RefGS

\* C10: after a successful submission the polling loop eventually exits in
\* every run.
C10_PollingTerminates == (pc = "polling") ~> (pc # "polling")

\* C11: once the context is cancelled while GenerateVideo polls, no poll
\* returns a reference any more, the loop can only stay or return the error
\* "context cancelled during polling" (an error text no failed generation
\* produces), and the loop does leave.
GenerationErrors == {"operation failed", "no videos found", "URI is empty"}

C11_CancelStep ==
    (pc = "polling" /\ cancelled) =>
        \/ (pc' = "polling" /\ UNCHANGED videoVars)
        \/ /\ pc' = "videoret"
           /\ videoGsURI' = Empty
           /\ videoErr' = "context cancelled"
           /\ videoErr' \notin GenerationErrors

CandidateSeq(m) ==
    <<m.gcsUri, m.videoUri, m.uri>>
      \o (IF m.hasVideoObj THEN <<m.vUri, m.vGcsUri, m.vVideoUri>> ELSE << >>)

FirstNonEmpty(seq) ==
    IF \A i \in 1..Len(seq) : seq[i] = Empty THEN Empty
    ELSE seq[CHOOSE i \in 1..Len(seq) :
               seq[i] # Empty /\ \A j \in 1..(i - 1) : seq[j] = Empty]

\* a finished operation without an operation error has been handled
DoneHandled == pc = "videoret" /\ lastPoll = "done" /\ ~lastResp.opErr

\* C12 as claimed: GenerateVideo answers a finished operation without an
\* operation error either with a non-empty reference and no error, or with
\* an error carrying the raw response when there is no generated video or no
\* candidate field holds a reference.
C12_NoEmptySuccessClaim ==
    DoneHandled =>
        \/ (videoErr = "none" /\ videoGsURI # Empty)
        \/ /\ videoErr \notin {"none", "unset"}
           /\ videoGsURI = Empty
           /\ (lastResp.videos = 0 \/ NoCandidate(lastResp))
           /\ ErrorCarriesRaw(videoErr)

\* C12: GenerateVideo never returns success with an empty reference.  A
\* finished operation without an operation error yields a non-empty reference
\* and no error, or the error "no videos found" (without the response) when
\* there is no generated video, or the error "URI is empty" carrying the raw
\* response when no candidate field holds a reference.
C12_NoEmptySuccess ==
    /\ (pc = "videoret" /\ videoErr = "none") => videoGsURI # Empty
    /\ DoneHandled =>
          \/ /\ videoErr = "none"
             /\ videoGsURI # Empty
             /\ lastResp.videos > 0
             /\ ~NoCandidate(lastResp)
          \/ /\ videoErr = "no videos found"
             /\ videoGsURI = Empty
             /\ lastResp.videos = 0
             /\ ~ErrorCarriesRaw(videoErr)
          \/ /\ videoErr = "URI is empty"
             /\ videoGsURI = Empty
             /\ lastResp.videos > 0
             /\ NoCandidate(lastResp)
             /\ ErrorCarriesRaw(videoErr)

C12_Witness ==
    /\ DoneHandled
    /\ lastResp.videos > 0
    /\ lastResp.hasVideoObj
    /\ NoCandidate(lastResp)
    /\ videoErr = "URI is empty"
    /\ videoGsURI = Empty

\* C13: tolerant extraction.  The reference returned is the first non-empty
\* candidate in the order gcsUri, videoUri, uri, then video.uri, video.gcsUri,
\* video.videoUri of the nested object; a reference carried alone in the
\* top-level uri field, in a top-level alternate field or in the nested
\* object is returned whichever of the three places holds it.
OnlyIn(m, r) ==
    \/ m = Resp(TRUE, FALSE, 1, Empty, Empty, r, FALSE, Empty, Empty, Empty)
    \/ m = Resp(TRUE, FALSE, 1, r, Empty, Empty, FALSE, Empty, Empty, Empty)
    \/ m = Resp(TRUE, FALSE, 1, Empty, r, Empty, FALSE, Empty, Empty, Empty)
    \/ m = Resp(TRUE, FALSE, 1, Empty, Empty, Empty, TRUE, r, Empty, Empty)

C13_TolerantExtraction ==
    (DoneHandled /\ lastResp.videos > 0) =>
        /\ videoGsURI = FirstNonEmpty(CandidateSeq(lastResp))
        /\ (videoErr = "none") = (videoGsURI # Empty)
        /\ \A r \in Refs \ {Empty} : OnlyIn(lastResp, r) => videoGsURI = r

C13_Witness ==
    /\ DoneHandled
    /\ lastResp.videos > 0
    /\ lastResp.gcsUri = Empty
    /\ lastResp.videoUri = Empty
    /\ lastResp.uri = RefGS
    /\ lastResp.hasVideoObj
    /\ lastResp.vUri = RefAlt
    /\ videoGsURI = RefGS
    /\ videoErr = "none"

\* C15: a failed store write withholds nothing.  When the partial or the final
\* upsert of a run returned an error, the run has still called GenerateVideo,
\* has sent the video event if the video generation succeeded, has sent no
\* error event other than the one of a failed video generation, and has
\* returned nil.
C15_WriteFailureIsSoft ==
    (Finished /\ CallFailed("UpsertLocation")) =>
        /\ CountKind(Calls, "GenerateVideo") = 1
        /\ (videoErr = "none") => CountKind(Events, "video") = 1
        /\ CountKind(Events, "error") = (IF VideoFailed THEN 1 ELSE 0)
        /\ ret = "nil"

\* C20: on a cache miss the result event carrying the generated image is the
\* first thing that follows a successful GenerateImage call, and every
\* UploadImage and GenerateVideo call comes after that event.
C20_ImageBeforeVideoStage ==
    \A i \in 1..Len(trace) :
        (trace[i].t = "call" /\ trace[i].kind = "GenerateImage" /\ trace[i].ok) =>
            /\ i < Len(trace)
            /\ trace[i + 1].t = "event"
            /\ trace[i + 1].kind = "result"
            /\ trace[i + 1].img = Base64Data
            /\ \A j \in 1..Len(trace) :
                  (trace[j].t = "call"
                     /\ trace[j].kind \in {"UploadImage", "GenerateVideo"}) => j > i + 1

C20_Witness ==
    /\ pc = "polling"
    /\ CallOk("GenerateImage")
    /\ CallOk("UploadImage")
    /\ CountKind(Calls, "GenerateVideo") = 1
    /\ CountKind(Events, "result") = 1

\* C17: id determinism.  The id has the length of the input; every character
\* of it is a lower-case letter, a digit or an underscore; a lower-case letter
\* or digit is kept, an upper-case letter becomes its lower-case letter when
\* that is one of a-z, and every other character becomes one underscore; two
\* inputs that differ only in letter case get the same id; and sanitizing an
\* id gives the id back.
LowerAlnum == {LowerCase[i] : i \in 1..26} \cup Digits

ExpectedChar(c) ==
    IF c \in LowerAlnum THEN c
    ELSE IF \E p \in CasePairs : p[1] = c /\ p[2] \in LowerAlnum
    THEN (CHOOSE p \in CasePairs : p[1] = c /\ p[2] \in LowerAlnum)[2]
    ELSE "_"

Stamped(w) == [w.loc EXCEPT !.lastUpdated = w.at]

\* the job whose generation produced a media URL; 0 for media that were
\* there before the operations or came with a legacy preset
Origin(url) ==
    IF \E j \in JobIds : url \in {JobImg(j), JobVid(j)}
    THEN CHOOSE j \in JobIds : url \in {JobImg(j), JobVid(j)}
    ELSE 0

\* the upsert a job has just made, in a step that made one
NewUpsert(j) == Len(jobs'[j].upserts) > Len(jobs[j].upserts)
LastUpsert(j) == jobs'[j].upserts[Len(jobs'[j].upserts)]

\* C14: last write wins.  With operations interleaved on one id and no lock,
\* two runs of GetWeatherFlow among them, the stored record is at every
\* moment the record of the most recent accepted upsert, so its imageURL and
\* a non-empty videoURL come from the same job.
C14_LastWriteWins ==
    /\ \A id \in DOMAIN lastWrite :
          id \in DOMAIN store /\ store[id] = Stamped(lastWrite[id])
    /\ \A id \in DOMAIN store :
          store[id].videoURL # Empty =>
              Origin(store[id].imageURL) = Origin(store[id].videoURL)

\* both runs missed; the first has finished with both upserts accepted, and
\* the partial upsert of the second, made after that, is what is stored
C14_Witness ==
    /\ \A j \in JobIds : jobs[j].kind = "flow" /\ ~jobs[j].found
    /\ jobs[1].pc = "done"
    /\ Len(jobs[1].upserts) = 2
    /\ jobs[1].upserts[1].ok
    /\ jobs[1].upserts[2].ok
    /\ jobs[2].pc = "video"
    /\ Len(jobs[2].upserts) = 1
    /\ jobs[2].upserts[1].ok
    /\ lastWrite[RioID].by = 2
    /\ store[RioID].imageURL = JobImg(2)
    /\ store[RioID].videoURL = Empty

\* C16: preset skip-on-exists.  In batch and in single mode, when the lookup
\* finds a record and force is false, the operation makes no image, upload
\* or video call and its one upsert passes the record found with the new
\* name and category and with the imageURL and videoURL it was found with;
\* when the write is accepted the stored record has exactly these.
SkipCase(j) ==
    /\ jobs[j].kind \in {"batch", "single"}
    /\ jobs[j].pc # "lookup"
    /\ jobs[j].found
    /\ ~jobs[j].force

C16_SkipState ==
    \A j \in JobIds :
        SkipCase(j) =>
            /\ jobs[j].pc \in {"patch", "done"}
            /\ jobs[j].calls = << >>
            /\ jobs[j].pc = "done" =>
                  /\ Len(jobs[j].upserts) = 1
                  /\ jobs[j].upserts[1].loc.id = jobs[j].id
                  /\ jobs[j].upserts[1].loc.name = jobs[j].name
                  /\ jobs[j].upserts[1].loc.category = jobs[j].category
                  /\ jobs[j].upserts[1].loc.imageURL = jobs[j].seen.imageURL
                  /\ jobs[j].upserts[1].loc.videoURL = jobs[j].seen.videoURL

C16_SkipStep ==
    \A j \in JobIds :
        (SkipCase(j) /\ NewUpsert(j) /\ LastUpsert(j).ok) =>
            /\ store'[jobs[j].id].name = jobs[j].name
            /\ store'[jobs[j].id].category = jobs[j].category
            /\ store'[jobs[j].id].imageURL = jobs[j].seen.imageURL
            /\ store'[jobs[j].id].videoURL = jobs[j].seen.videoURL
            /\ store[jobs[j].id] = jobs[j].seen =>
                  /\ store'[jobs[j].id].imageURL = store[jobs[j].id].imageURL
                  /\ store'[jobs[j].id].videoURL = store[jobs[j].id].videoURL

C16_PresetSkipOnExists == []C16_SkipState /\ [][C16_SkipStep]_vars

C16_Witness ==
    /\ \A j \in JobIds : SkipCase(j) /\ jobs[j].pc = "done" /\ jobs[j].upserts[1].ok
    /\ jobs[1].kind = "batch"
    /\ jobs[2].kind = "single"
    /\ store[RioID].name = RowName
    /\ store[RioID].category = CatNew
    /\ store[RioID].imageURL = ImgOld
    /\ store[RioID].videoURL = VidOld

\* C18: an upsert of a record with an empty id returns an error and changes
\* nothing; an accepted upsert changes the document keyed by the record's id
\* and no other; so no stored record has an empty id and every stored record
\* is kept under its own id, whatever GetWeatherFlow, preset generation,
\* migration and refresh do.
C18_KeysState ==
    /\ Empty \notin DOMAIN store
    /\ \A id \in DOMAIN store : store[id].id = id
    /\ \A j \in JobIds : \A k \in 1..Len(jobs[j].upserts) :
          jobs[j].upserts[k].loc.id = Empty => ~jobs[j].upserts[k].ok

C18_KeysStep ==
    \A j \in JobIds :
        NewUpsert(j) =>
            /\ LastUpsert(j).loc.id = Empty => (~LastUpsert(j).ok /\ store' = store)
            /\ ~LastUpsert(j).ok => store' = store
            /\ LastUpsert(j).ok =>
                  /\ DOMAIN store' = (DOMAIN store) \cup {LastUpsert(j).loc.id}
                  /\ store'[LastUpsert(j).loc.id].id = LastUpsert(j).loc.id
                  /\ \A id \in DOMAIN store :
                        id # LastUpsert(j).loc.id => store'[id] = store[id]

C18_NonEmptyIds == []C18_KeysState /\ [][C18_KeysStep]_vars

C18_Witness ==
    /\ jobs[1].kind = "batch"
    /\ jobs[1].pc = "done"
    /\ Len(jobs[1].upserts) = 1
    /\ jobs[1].upserts[1].loc.id = Empty
    /\ ~jobs[1].upserts[1].ok
    /\ jobs[2].kind = "migrate"
    /\ jobs[2].pc = "done"
    /\ jobs[2].upserts[1].loc.id = Empty
    /\ ~jobs[2].upserts[1].ok
    /\ RioID \in DOMAIN store

\* C19: the store stamps the time.  After every accepted upsert the stored
\* lastUpdated is the clock at that write, whatever lastUpdated the caller
\* put in the record: the build time of GetWeatherFlow, the time set by
\* refresh, the old time of a patched record or no time at all.
C19_StampState ==
    \A id \in DOMAIN lastWrite : store[id].lastUpdated = lastWrite[id].at

C19_StampStep ==
    \A j \in JobIds :
        (NewUpsert(j) /\ LastUpsert(j).ok) =>
            store'[LastUpsert(j).loc.id].lastUpdated = now

C19_StoreStampsTime == []C19_StampState /\ [][C19_StampStep]_vars

C19_Witness ==
    /\ jobs[1].kind = "flow"
    /\ jobs[1].pc = "done"
    /\ Len(jobs[1].upserts) = 2
    /\ jobs[1].upserts[2].ok
    /\ jobs[1].upserts[2].loc.lastUpdated < jobs[1].upserts[2].at
    /\ lastWrite[RioID].by = 1
    /\ store[RioID].lastUpdated = jobs[1].upserts[2].at
    /\ jobs[2].kind = "refresh"
    /\ jobs[2].pc = "done"
    /\ Len(jobs[2].upserts) = 1
    /\ jobs[2].upserts[1].ok

\* the positions of the calls of one kind in the trace
CallsAt(k) == {i \in 1..Len(trace) : trace[i].t = "call" /\ trace[i].kind = k}

\* C21: within one run the stages follow one another.  UploadImage is called
\* after GenerateImage has returned an image; GenerateVideo is called after
\* UploadImage has returned, with the gs:// reference of that upload, and
\* after the partial upsert; the upsert that carries a video URL carries the
\* image URL too and comes after the video event of that URL.  No stage runs
\* twice.
C21_StageOrder ==
    /\ \A k \in {"GenerateImage", "UploadImage", "GenerateVideo"} :
          Cardinality(CallsAt(k)) <= 1
    /\ \A j \in CallsAt("UploadImage") :
          \E i \in CallsAt("GenerateImage") : i < j /\ trace[i].ok
    /\ \A j \in CallsAt("GenerateVideo") :
          /\ \E i \in CallsAt("UploadImage") : i < j /\ trace[i].ok
          /\ trace[j].city = gsURI
          /\ gsURI = GsImage
          /\ \E i \in CallsAt("UpsertLocation") : i < j /\ trace[i].url = Empty
    /\ \A j \in CallsAt("UpsertLocation") :
          trace[j].url # Empty =>
              /\ trace[j].img # Empty
              /\ \E i \in 1..(j - 1) :
                    /\ trace[i].t = "event"
                    /\ trace[i].kind = "video"
                    /\ trace[i].url = trace[j].url
              /\ \E i \in CallsAt("GenerateVideo") : i < j

C21_Witness ==
    /\ pc = "done"
    /\ Cardinality(CallsAt("UpsertLocation")) = 2
    /\ trace[Len(trace)].kind = "UpsertLocation"
    /\ trace[Len(trace)].url # Empty
    /\ trace[Len(trace)].ok
    /\ CountKind(Events, "video") = 1

\* the positions of the result events in the trace
ResultsAt == {i \in 1..Len(trace) : trace[i].t = "event" /\ trace[i].kind = "result"}

\* C22: every result event carries the resolved city, a time, and exactly
\* one of the image data and the image URL.  After a cache hit it carries the
\* imageURL and the lastUpdated of the record found; after a cache miss it
\* carries the generated image data and the time at which it is sent.
C22_ResultState ==
    \A i \in ResultsAt :
        /\ trace[i].city = formattedCity
        /\ trace[i].city # Empty
        /\ trace[i].lu >= 0
        /\ (trace[i].img = Empty) # (trace[i].url = Empty)
        /\ IF FreshRecordSeen
           THEN /\ trace[i].img = Empty
                /\ trace[i].url = cachedLoc.imageURL
                /\ trace[i].lu = cachedLoc.lastUpdated
                /\ store[locID] = cachedLoc
           ELSE /\ trace[i].url = Empty
                /\ trace[i].img = Base64Data
                /\ i > 1
                /\ trace[i - 1].kind = "GenerateImage"
                /\ trace[i].lu >= checkTime
                /\ trace[i].lu <= now

C22_ResultStep ==
    \A i \in (1..Len(trace')) \ (1..Len(trace)) :
        (trace'[i].t = "event" /\ trace'[i].kind = "result" /\ trace'[i].img # Empty)
            => trace'[i].lu = now

C23_ResolutionBranch ==
    pc # "start" =>
        IF latStr # Empty /\ lngStr # Empty
        THEN /\ CallsAt("GetCityLocation") = {}
             /\ Cardinality(CallsAt("GetReverseGeocoding")) = 1
             /\ \A i \in CallsAt("GetReverseGeocoding") : trace[i].city = latStr
        ELSE /\ CallsAt("GetReverseGeocoding") = {}
             /\ Cardinality(CallsAt("GetCityLocation")) = 1
             /\ \A i \in CallsAt("GetCityLocation") :
                   /\ trace[i].city # Empty
                   /\ cityQuery # Empty => trace[i].city = cityQuery
                   /\ cityQuery = Empty => trace[i].city = DefaultCity

C23_Witness ==
    /\ pc = "cache"
    /\ cityQuery = Empty
    /\ latStr = Coord
    /\ lngStr = Empty
    /\ \E i \in CallsAt("GetCityLocation") : trace[i].city = DefaultCity /\ trace[i].ok

\* C30: the run writes to the store only after a cache miss and a successful
\* upload.  Every UpsertLocation call of a run follows its successful
\* UploadImage call; a run that ended in a cache hit, in a failed resolution,
\* in a failed image generation, without storage, or in a failed upload has
\* made no UpsertLocation call; and a step that changes the store is a step
\* of a run whose upload succeeded and that makes such a call.
NoUploadEnd ==
    /\ pc = "done"
    /\ \/ (Checked /\ FreshRecordSeen)
       \/ ResolveFailed
       \/ ImageFailed
       \/ (storageNil /\ CallOk("GenerateImage"))
       \/ UploadFailed

C30_WriteState ==
    /\ \A j \in CallsAt("UpsertLocation") :
          /\ \E i \in CallsAt("UploadImage") : i < j /\ trace[i].ok
          /\ ~FreshRecordSeen
    /\ NoUploadEnd => CallsAt("UpsertLocation") = {}

C30_WriteStep ==
    store' # store =>
        /\ CallOk("UploadImage")
        /\ Checked /\ ~FreshRecordSeen
        /\ Len(trace') > Len(trace)
        /\ \E i \in (1..Len(trace')) \ (1..Len(trace)) :
              trace'[i].kind = "UpsertLocation" /\ trace'[i].ok

C30_WritesOnlyAfterUpload == []C30_WriteState /\ [][C30_WriteStep]_vars

C30_Witness ==
    /\ pc = "done"
    /\ UploadFailed
    /\ cacheFound
    /\ now > checkTime
    /\ locID \in DOMAIN store
    /\ store[locID] = cachedLoc
    /\ CallsAt("UpsertLocation") = {}

\* --------------------------------------- GenerateImage, choice of the prompt
\* A prompt is a string of characters; each fixed text of the code (the two
\* templates around their placeholder, and the three labels) is one character.
MaxCalls == 2
PromptModes == 0..3
CtxSetting == <<"M","a","r","s">>
Cities == {Empty, NameRio, NameLA}
Contexts == {Empty, CtxSetting, NameLA}
Coins == {0, 1}
NoCoin == 0 - 1
basePromptTemplate == <<"[A]">>
secondaryPromptTemplate == <<"[B]", "[CITY]", "[/B]">>
CityLabel == <<"[City name: ]">>
DrinkLabel == <<"[DRINK: the most common AM drink for this location]">>
ContextLabel == <<"[Context/Setting: ]">>

\* strings.Replace(t, "[CITY]", city, -1)
RECURSIVE ReplaceCity(_, _)
ReplaceCity(t, city) ==
    IF t = << >> THEN << >>
    ELSE (IF Head(t) = "[CITY]" THEN city ELSE <<Head(t)>>)
         \o ReplaceCity(Tail(t), city)

\* the switch on promptMode; rand.IntN(2) is drawn in the default case only
DrawsCoin(promptMode) == promptMode \notin {1, 2}

UseSecondary(promptMode, coin) ==
    CASE promptMode = 1 -> FALSE
      [] promptMode = 2 -> TRUE
      [] OTHER -> coin = 1

BuildPrompt(city, extraContext, useSecondary) ==
    LET prompt == IF ~useSecondary
                  THEN basePromptTemplate \o CityLabel \o city
                  ELSE ReplaceCity(secondaryPromptTemplate, city) \o DrinkLabel
    IN IF extraContext # Empty THEN prompt \o ContextLabel \o extraContext
       ELSE prompt

PromptInit ==
    /\ IdleRun
    /\ store = EmptyStore
    /\ now = TTL
    /\ san = << >>
    /\ jobs = << >>
    /\ lastWrite = << >>
    /\ load = << >>
    /\ batch = << >>
    /\ \E city \in Cities, extraContext \in Contexts, promptMode \in PromptModes :
         imagePrompt = [city |-> city, extraContext |-> extraContext,
                        promptMode |-> promptMode, calls |-> << >>]

\* variant: the template drawn by the first call is kept for the later calls
GenerateImagePromptCached ==
    /\ Len(imagePrompt.calls) < MaxCalls
    /\ \E coin \in (IF DrawsCoin(imagePrompt.promptMode) THEN Coins ELSE {NoCoin}) :
         LET first == IF imagePrompt.calls = << >> THEN coin
                      ELSE imagePrompt.calls[1].coin
             prompt == BuildPrompt(imagePrompt.city, imagePrompt.extraContext,
                                   UseSecondary(imagePrompt.promptMode, first))
         IN imagePrompt' = [imagePrompt EXCEPT
                !.calls = @ \o <<[coin |-> coin, prompt |-> prompt]>>]
    /\ UNCHANGED <<runVars, store, now, san, jobs, lastWrite, load, batch>>

\* one call of GenerateImage, up to the prompt it sends to the model
GenerateImagePrompt ==
    /\ Len(imagePrompt.calls) < MaxCalls
    /\ \E coin \in (IF DrawsCoin(imagePrompt.promptMode) THEN Coins ELSE {NoCoin}) :
         LET prompt == BuildPrompt(imagePrompt.city, imagePrompt.extraContext,
                                   UseSecondary(imagePrompt.promptMode, coin))
         IN imagePrompt' = [imagePrompt EXCEPT
                !.calls = @ \o <<[coin |-> coin, prompt |-> prompt]>>]
    /\ UNCHANGED <<runVars, store, now, san, jobs, lastWrite, load, batch>>

PromptSpec == PromptInit /\ [][GenerateImagePrompt]_vars

\* what can be read off a prompt
IsTemplateA(p) == Len(p) >= 1 /\ p[1] = "[A]"
IsTemplateB(p) == Len(p) >= 1 /\ p[1] = "[B]"
ContextAt(p) == {k \in 1..Len(p) : p[k] = "[Context/Setting: ]"}

\* C26: in every call of GenerateImage, mode 1 gives template A and mode 2
\* gives template B; any other mode gives one of the two, decided by the coin
\* drawn in that very call; and the prompt ends with the context label followed
\* by extraContext when extraContext is non-empty, and holds no context label
\* when it is empty.
C26_PromptSelection ==
    imagePrompt # << >> =>
      \A i \in 1..Len(imagePrompt.calls) :
        LET c == imagePrompt.calls[i]
            p == c.prompt
        IN /\ imagePrompt.promptMode = 1 => IsTemplateA(p)
           /\ imagePrompt.promptMode = 2 => IsTemplateB(p)
           /\ IsTemplateA(p) # IsTemplateB(p)
           /\ imagePrompt.promptMode = 0 =>
                 /\ c.coin \in Coins
                 /\ IsTemplateB(p) <=> c.coin = 1
           /\ IF imagePrompt.extraContext # Empty
              THEN \E k \in ContextAt(p) :
                      /\ ContextAt(p) = {k}
                      /\ SubSeq(p, k + 1, Len(p)) = imagePrompt.extraContext
              ELSE ContextAt(p) = {}

C26_Witness ==
    /\ imagePrompt # << >>
    /\ imagePrompt.promptMode = 0
    /\ imagePrompt.extraContext = CtxSetting
    /\ imagePrompt.city = NameRio
    /\ Len(imagePrompt.calls) = 2
    /\ IsTemplateA(imagePrompt.calls[1].prompt)
    /\ IsTemplateB(imagePrompt.calls[2].prompt)
    /\ imagePrompt.calls[2].prompt =
         <<"[B]">> \o NameRio \o <<"[/B]">> \o DrinkLabel \o ContextLabel \o CtxSetting

\* ------------------------------------------------------------- config.Load
\* The environment gives each variable as unset, as set to the empty string
\* or as set to a value of its own; the .env files name some of the
\* variables.  Here the empty string is "".
EnvKeys == {"GOOGLE_CLOUD_PROJECT", "PROJECT_ID", "GOOGLE_CLOUD_LOCATION",
            "GENMEDIA_BUCKET", "FIRESTORE_DATABASE", "GOOGLE_MAPS_API_KEY",
            "PORT"}
EnvValue == [k \in EnvKeys |->
    CASE k = "GOOGLE_CLOUD_PROJECT" -> "test-project"
      [] k = "PROJECT_ID" -> "other-project"
      [] k = "GOOGLE_CLOUD_LOCATION" -> "europe-west1"
      [] k = "GENMEDIA_BUCKET" -> "test-bucket"
      [] k = "FIRESTORE_DATABASE" -> "test-db"
      [] k = "GOOGLE_MAPS_API_KEY" -> "test-key"
      [] k = "PORT" -> "9090"]
FileValue == [k \in EnvKeys |->
    CASE k = "GOOGLE_CLOUD_PROJECT" -> "file-project"
      [] k = "PROJECT_ID" -> "file-other-project"
      [] k = "GOOGLE_CLOUD_LOCATION" -> "file-location"
      [] k = "GENMEDIA_BUCKET" -> "file-bucket"
      [] k = "FIRESTORE_DATABASE" -> "file-db"
      [] k = "GOOGLE_MAPS_API_KEY" -> "file-key"
      [] k = "PORT" -> "7070"]
Unset == [set |-> FALSE, val |-> ""]
SetTo(v) == [set |-> TRUE, val |-> v]
Environments == {e \in [EnvKeys -> [set : BOOLEAN, val : {"", "x"}]] :
                    \A k \in EnvKeys : ~e[k].set => e[k].val = ""}
EnvOf(e) == [k \in EnvKeys |->
                IF e[k].val = "x" THEN SetTo(EnvValue[k]) ELSE e[k]]
DotenvFiles == {{}, {"PROJECT_ID", "GENMEDIA_BUCKET", "PORT"}, EnvKeys}
NilConfig == [ProjectID |-> "", Location |-> "", BucketName |-> "",
              DatabaseID |-> "", GoogleMapsKey |-> "", Port |-> ""]

\* os.Getenv: the value, or "" for a variable that is not set
Getenv(env, key) == IF env[key].set THEN env[key].val ELSE ""

\* godotenv.Load: a variable of the file is set unless the environment holds it
godotenvLoad(env, file) ==
    [k \in EnvKeys |->
        IF ~env[k].set /\ k \in file THEN SetTo(FileValue[k]) ELSE env[k]]

\* variant: the default is taken for an unset variable only
getEnvOrUnset(env, key, defaultVal) ==
    IF env[key].set THEN env[key].val ELSE defaultVal

getEnvOr(env, key, defaultVal) ==
    IF Getenv(env, key) # "" THEN Getenv(env, key) ELSE defaultVal

LoadConfig(env) ==
    [ProjectID |-> getEnvOr(env, "GOOGLE_CLOUD_PROJECT", Getenv(env, "PROJECT_ID")),
     Location |-> getEnvOr(env, "GOOGLE_CLOUD_LOCATION", "us-central1"),
     BucketName |-> Getenv(env, "GENMEDIA_BUCKET"),
     DatabaseID |-> getEnvOr(env, "FIRESTORE_DATABASE", "(default)"),
     GoogleMapsKey |-> Getenv(env, "GOOGLE_MAPS_API_KEY"),
     Port |-> getEnvOr(env, "PORT", "8080")]

LoadErr(cfg) ==
    CASE cfg.ProjectID = "" -> "GOOGLE_CLOUD_PROJECT or PROJECT_ID is required"
      [] cfg.BucketName = "" -> "GENMEDIA_BUCKET is required"
      [] cfg.GoogleMapsKey = "" -> "GOOGLE_MAPS_API_KEY is required"
      [] OTHER -> "nil"

LoadInit ==
    /\ IdleRun
    /\ store = EmptyStore
    /\ now = TTL
    /\ san = << >>
    /\ jobs = << >>
    /\ lastWrite = << >>
    /\ imagePrompt = << >>
    /\ batch = << >>
    /\ \E e \in Environments, file \in DotenvFiles :
         load = [env |-> EnvOf(e), dotenv |-> file, cfg |-> NilConfig,
                 err |-> "nil", done |-> FALSE]

Load ==
    /\ ~load.done
    /\ LET env == godotenvLoad(load.env, load.dotenv)
           cfg == LoadConfig(env)
           err == LoadErr(cfg)
       IN load' = [load EXCEPT !.env = env,
                               !.cfg = IF err = "nil" THEN cfg ELSE NilConfig,
                               !.err = err,
                               !.done = TRUE]
    /\ UNCHANGED <<runVars, store, now, san, jobs, lastWrite, imagePrompt, batch>>

LoadSpec == LoadInit /\ [][Load]_vars

\* the environment as Load leaves it
IsEmpty(key) == ~load.env[key].set \/ load.env[key].val = ""
ValueIn(key) == IF IsEmpty(key) THEN "" ELSE load.env[key].val
ProjectIn == IF IsEmpty("GOOGLE_CLOUD_PROJECT") THEN ValueIn("PROJECT_ID")
             ELSE ValueIn("GOOGLE_CLOUD_PROJECT")
Defaulted(key, field, defaultVal) ==
    /\ IsEmpty(key) => load.cfg[field] = defaultVal
    /\ ~IsEmpty(key) => load.cfg[field] = load.env[key].val

\* C29: Load fails exactly when the project id (GOOGLE_CLOUD_PROJECT, else
\* PROJECT_ID), GENMEDIA_BUCKET or GOOGLE_MAPS_API_KEY is empty in the
\* environment; otherwise the Config holds the values of the environment, and
\* Port, Location and DatabaseID hold their defaults exactly when their
\* variable is unset or empty.
C29_LoadContract ==
    (load # << >> /\ load.done) =>
        /\ load.err # "nil" <=>
              \/ ProjectIn = ""
              \/ IsEmpty("GENMEDIA_BUCKET")
              \/ IsEmpty("GOOGLE_MAPS_API_KEY")
        /\ load.err # "nil" => load.cfg = NilConfig
        /\ load.err = "nil" =>
              /\ load.cfg.ProjectID = ProjectIn
              /\ load.cfg.BucketName = load.env["GENMEDIA_BUCKET"].val
              /\ load.cfg.GoogleMapsKey = load.env["GOOGLE_MAPS_API_KEY"].val
              /\ Defaulted("PORT", "Port", "8080")
              /\ Defaulted("GOOGLE_CLOUD_LOCATION", "Location", "us-central1")
              /\ Defaulted("FIRESTORE_DATABASE", "DatabaseID", "(default)")

C29_Witness ==
    /\ load # << >>
    /\ load.done
    /\ load.dotenv = {}
    /\ load.env["GOOGLE_CLOUD_PROJECT"] = SetTo("")
    /\ load.env["PROJECT_ID"] = SetTo("other-project")
    /\ load.env["PORT"] = SetTo("")
    /\ load.env["GOOGLE_CLOUD_LOCATION"] = SetTo("europe-west1")
    /\ load.env["FIRESTORE_DATABASE"] = Unset
    /\ load.err = "nil"
    /\ load.cfg = [ProjectID |-> "other-project", Location |-> "europe-west1",
                   BucketName |-> "test-bucket", DatabaseID |-> "(default)",
                   GoogleMapsKey |-> "test-key", Port |-> "8080"]

\* what a refresh has done
RefreshDone(j) == jobs[j].kind = "refresh" /\ jobs[j].pc = "done"
AllGenerated(j) == jobs[j].calls = <<"GenerateImage", "UploadImage", "GenerateVideo">>
SameIdentity(r, q) ==
    /\ r.id = q.id
    /\ r.name = q.name
    /\ r.category = q.category
    /\ r.cityQuery = q.cityQuery
    /\ r.isPreset = q.isPreset

\* C27: admin refresh.  A refresh that found its record generates whatever
\* the age of the record; one that found none calls no generator and makes no
\* upsert; one whose image generation, upload or video generation failed makes
\* no upsert; the upsert of a successful refresh carries the id, name,
\* category, cityQuery and isPreset of the record read and the new media URLs.
C27_RefreshState ==
    \A j \in JobIds :
        RefreshDone(j) =>
            /\ ~jobs[j].found => (jobs[j].calls = << >> /\ jobs[j].upserts = << >>)
            /\ jobs[j].found => jobs[j].calls # << >>
            /\ ~AllGenerated(j) => jobs[j].upserts = << >>
            /\ \A k \in 1..Len(jobs[j].upserts) :
                  LET u == jobs[j].upserts[k].loc
                  IN /\ SameIdentity(u, jobs[j].seen)
                     /\ u.imageURL = JobImg(j)
                     /\ u.videoURL = JobVid(j)

\* a step of a refresh changes the store only by that upsert, and a record
\* that nobody wrote since the lookup changes in its media URLs and its
\* lastUpdated only
C27_RefreshStep ==
    \A j \in JobIds :
        (jobs[j].kind = "refresh" /\ jobs'[j] # jobs[j] /\ store' # store) =>
            /\ jobs[j].found
            /\ AllGenerated(j)
            /\ NewUpsert(j) /\ LastUpsert(j).ok
            /\ \A id \in DOMAIN store : id # jobs[j].id => store'[id] = store[id]
            /\ DOMAIN store' = DOMAIN store \cup {jobs[j].id}
            /\ LET new == store'[jobs[j].id]
               IN /\ SameIdentity(new, jobs[j].seen)
                  /\ new.imageURL = JobImg(j)
                  /\ new.videoURL = JobVid(j)
                  /\ new.lastUpdated = now

C27_Refresh == []C27_RefreshState /\ [][C27_RefreshStep]_vars

C27_Witness ==
    \E j \in JobIds :
        /\ RefreshDone(j)
        /\ jobs[j].ret = "ok"
        /\ jobs[3 - j].kind = "refresh"
        /\ jobs[3 - j].ret = "fatal"
        /\ jobs[3 - j].calls = <<"GenerateImage", "UploadImage">>
        /\ jobs[j].seen.lastUpdated = TTL
        /\ jobs[j].seen.isPreset
        /\ jobs[j].upserts[1].at = TTL
        /\ store[RioID] = [jobs[j].seen EXCEPT !.imageURL = JobImg(j),
                                              !.videoURL = JobVid(j)]

\* ------------------------------------------------ runMigrate, over the list
\* presets.json holds up to MaxRows legacy presets; the loop takes them in
\* order, one upsert each.
MaxRows == 2
LaID == sanitizeID(NameLA)
LegacyPresets ==
    {[ID |-> i, Name |-> IF i = LaID THEN NameLA ELSE NameRio, Category |-> c,
      ImageURL |-> ImgOld, VideoURL |-> VidOld] :
        i \in {Empty, RioID, LaID}, c \in {Empty, CatCity}}
RECURSIVE ListsOf(_, _)
ListsOf(S, n) ==
    IF n = 0 THEN {<< >>}
    ELSE LET shorter == ListsOf(S, n - 1)
         IN shorter \cup {Append(l, x) : l \in {m \in shorter : Len(m) = n - 1}, x \in S}

\* the record that the loop builds from a legacy preset
MigrateLocation(p) ==
    [id |-> p.ID, name |-> p.Name,
     category |-> IF p.Category = Empty THEN General ELSE p.Category,
     cityQuery |-> p.Name, imageURL |-> p.ImageURL, videoURL |-> p.VideoURL,
     isPreset |-> TRUE, lastUpdated |-> 0]

MigrateInit ==
    /\ IdleRun
    /\ san = << >>
    /\ jobs = << >>
    /\ lastWrite = << >>
    /\ load = << >>
    /\ imagePrompt = << >>
    /\ store \in OpsStores
    /\ now = TTL
    /\ \E list \in ListsOf(LegacyPresets, MaxRows) :
         batch = [kind |-> "migrate", rows |-> list, i |-> 1, pc |-> "loop",
                  log |-> << >>]

\* variant: the first failed upsert ends the migration
MigratePresetStopOnError ==
    /\ batch.kind = "migrate"
    /\ batch.pc = "loop"
    /\ batch.i <= Len(batch.rows)
    /\ \E dbOk \in BOOLEAN :
         LET loc == MigrateLocation(batch.rows[batch.i])
         IN /\ store' = UpsertLocation(store, loc, now, dbOk)
            /\ batch' = [batch EXCEPT
                  !.log = Append(@, [row |-> batch.i, op |-> "UpsertLocation",
                                     loc |-> loc, ok |-> ~UpsertErr(loc, dbOk)]),
                  !.i = @ + 1,
                  !.pc = IF UpsertErr(loc, dbOk) THEN "done" ELSE @]
    /\ UNCHANGED <<runVars, san, jobs, lastWrite, load, imagePrompt, now>>

\* one turn of `for _, p := range legacyList`
MigratePreset ==
    /\ batch.kind = "migrate"
    /\ batch.pc = "loop"
    /\ batch.i <= Len(batch.rows)
    /\ \E dbOk \in BOOLEAN :
         LET loc == MigrateLocation(batch.rows[batch.i])
         IN /\ store' = UpsertLocation(store, loc, now, dbOk)
            /\ batch' = [batch EXCEPT
                  !.log = Append(@, [row |-> batch.i, op |-> "UpsertLocation",
                                     loc |-> loc, ok |-> ~UpsertErr(loc, dbOk)]),
                  !.i = @ + 1]
    /\ UNCHANGED <<runVars, san, jobs, lastWrite, load, imagePrompt, now>>

\* "Migration Complete."
MigrateComplete ==
    /\ batch.kind = "migrate"
    /\ batch.pc = "loop"
    /\ batch.i > Len(batch.rows)
    /\ batch' = [batch EXCEPT !.pc = "done"]
    /\ UNCHANGED <<runVars, san, jobs, lastWrite, load, imagePrompt, store, now>>

MigrateNext == MigratePreset \/ MigrateComplete

MigrateSpec == MigrateInit /\ [][MigrateNext]_vars

\* the rows whose upsert was accepted, and the last of them for an id
Imported == {k \in 1..Len(batch.log) : batch.log[k].ok}
LastImported(id) ==
    CHOOSE k \in Imported :
        /\ batch.log[k].loc.id = id
        /\ \A m \in Imported : batch.log[m].loc.id = id => m <= k

\* C28: migration.  The loop makes one upsert for every legacy preset, in
\* order, whether or not earlier upserts failed; the record passed has
\* isPreset = true, the id, name, imageURL and videoURL of the preset, and
\* its category, or "General" for an empty one; every id with an accepted
\* upsert holds the record of its last accepted preset.
C28_MigrateState ==
    (batch # << >> /\ batch.kind = "migrate") =>
        /\ Len(batch.log) = batch.i - 1
        /\ batch.pc = "done" => Len(batch.log) = Len(batch.rows)
        /\ \A k \in 1..Len(batch.log) :
              LET p == batch.rows[k]
                  r == batch.log[k].loc
              IN /\ batch.log[k].row = k
                 /\ r.isPreset
                 /\ r.id = p.ID /\ r.name = p.Name
                 /\ r.imageURL = p.ImageURL /\ r.videoURL = p.VideoURL
                 /\ p.Category = Empty => r.category = General
                 /\ p.Category # Empty => r.category = p.Category
        /\ \A k \in Imported :
              LET id == batch.log[k].loc.id
              IN /\ id \in DOMAIN store
                 /\ store[id] = [batch.log[LastImported(id)].loc
                                   EXCEPT !.lastUpdated = now]

C28_MigrateStep ==
    (batch # << >> /\ batch.kind = "migrate" /\ Len(batch'.log) > Len(batch.log)) =>
        LET e == batch'.log[Len(batch'.log)]
        IN IF e.ok THEN store' = [i \in DOMAIN store \cup {e.loc.id} |->
                                    IF i = e.loc.id
                                    THEN [e.loc EXCEPT !.lastUpdated = now]
                                    ELSE store[i]]
           ELSE store' = store

C28_Migration == []C28_MigrateState /\ [][C28_MigrateStep]_vars

C28_Witness ==
    /\ batch # << >>
    /\ batch.kind = "migrate"
    /\ batch.pc = "done"
    /\ Len(batch.rows) = 2
    /\ batch.rows[1].ID = RioID
    /\ batch.rows[2].ID = LaID
    /\ batch.rows[2].Category = Empty
    /\ ~batch.log[1].ok
    /\ batch.log[2].ok
    /\ RioID \notin DOMAIN store
    /\ store[LaID].category = General
    /\ store[LaID].isPreset

\* ------------------------------------------------ runBatchMode, over the file
\* The CSV file holds up to MaxRows + 1 rows of 3, 4 or 5 fields.  A row is
\* the header or a preset; every column has values of its own.
HeaderFields == << <<"i","d">>, <<"n","a","m","e">>, <<"c","i","t","y">>,
                  <<"c","a","t">>, <<"c","t","x">> >>
PresetFields(id) ==
    <<id, RowName, IF id = LaID THEN NameLA ELSE QueryRio, CatNew, CtxSetting>>
FieldCounts == {3, 4, 5}
CsvRows ==
    {SubSeq(HeaderFields, 1, n) : n \in FieldCounts}
    \cup {SubSeq(PresetFields(id), 1, n) : id \in {RioID, LaID}, n \in FieldCounts}
BatchStores ==
    {EmptyStore}
    \cup {[i \in {r.id} |-> r] :
            r \in {q \in InitRecs : q.lastUpdated = TTL /\ q.videoURL = VidOld}}
RowMark == <<"1","2","3","4","5","6","7","8","9">>
RowImg(i) == <<"i","m","g">> \o <<RowMark[i]>>
RowVid(i) == <<"v","i","d">> \o <<RowMark[i]>>

\* csv.Reader with FieldsPerRecord = 0: every record must have as many fields
\* as the first one, else ReadAll returns ErrFieldCount
ReadAllOk(file) == \A k \in 1..Len(file) : Len(file[k]) = Len(file[1])

LogEntry(row, op, ok, id, city, ctx, loc) ==
    [row |-> row, op |-> op, ok |-> ok, id |-> id, city |-> city, ctx |-> ctx,
     loc |-> loc]

BatchInit ==
    /\ IdleRun
    /\ san = << >>
    /\ jobs = << >>
    /\ lastWrite = << >>
    /\ load = << >>
    /\ imagePrompt = << >>
    /\ store \in BatchStores
    /\ now = TTL
    /\ \E file \in ListsOf(CsvRows, MaxRows + 1), force \in BOOLEAN :
         batch = [kind |-> "batch", file |-> file, force |-> force,
                  records |-> << >>, i |-> 1, pc |-> "read", ret |-> "none",
                  exists |-> FALSE, existing |-> NilLoc,
                  imgURL |-> Empty, vidURL |-> Empty, log |-> << >>]

BatchRunning(at) == batch.kind = "batch" /\ batch.pc = at
Row == batch.records[batch.i]
pID == Row[1]
pName == Row[2]
pCity == Row[3]
pCat == Row[4]
pCtx == IF Len(Row) > 4 THEN Row[5] ELSE Empty

\* reader.ReadAll(); a failure is log.Fatalf
BatchReadAll ==
    /\ BatchRunning("read")
    /\ IF ReadAllOk(batch.file)
       THEN batch' = [batch EXCEPT !.records = batch.file, !.pc = "row"]
       ELSE batch' = [batch EXCEPT !.pc = "done", !.ret = "fatal"]
    /\ UNCHANGED <<runVars, san, jobs, lastWrite, load, imagePrompt, store, now>>

\* if i == 0 { continue }; if len(row) < 4 { continue }
BatchSkipRow ==
    /\ BatchRunning("row")
    /\ batch.i <= Len(batch.records)
    /\ batch.i = 1 \/ Len(Row) < 4
    /\ batch' = [batch EXCEPT !.i = @ + 1]
    /\ UNCHANGED <<runVars, san, jobs, lastWrite, load, imagePrompt, store, now>>

\* Check Existing
BatchCheckExisting ==
    /\ BatchRunning("row")
    /\ batch.i <= Len(batch.records)
    /\ batch.i # 1 /\ Len(Row) >= 4
    /\ \E dbOk \in BOOLEAN :
         LET exists == GetLocationOk(store, pID, dbOk)
         IN batch' = [batch EXCEPT
               !.exists = exists,
               !.existing = GetLocation(store, pID, dbOk),
               !.log = Append(@, LogEntry(batch.i, "GetLocation", exists, pID,
                                          Empty, Empty, NilLoc)),
               !.pc = IF exists /\ ~batch.force THEN "patch" ELSE "process"]
    /\ UNCHANGED <<runVars, san, jobs, lastWrite, load, imagePrompt, store, now>>

\* exists && !force: the metadata patch; a failure is logged
BatchPatch ==
    /\ BatchRunning("patch")
    /\ \E dbOk \in BOOLEAN :
         LET loc == [batch.existing EXCEPT !.name = pName, !.category = pCat,
                                           !.isPreset = TRUE]
         IN /\ store' = UpsertLocation(store, loc, now, dbOk)
            /\ batch' = [batch EXCEPT
                  !.log = Append(@, LogEntry(batch.i, "UpsertLocation",
                                             ~UpsertErr(loc, dbOk), loc.id,
                                             Empty, Empty, loc)),
                  !.i = @ + 1,
                  !.pc = "row"]
    /\ UNCHANGED <<runVars, san, jobs, lastWrite, load, imagePrompt, now>>

\* the calls of processPreset up to its first failure
ProcessCalls(row, id, city, ctx, out) ==
    LET image == LogEntry(row, "GenerateImage", out # "image failed", id, city,
                          ctx, NilLoc)
        upload == LogEntry(row, "UploadImage", out # "upload failed", id, Empty,
                           Empty, NilLoc)
        video == LogEntry(row, "GenerateVideo", out # "video failed", id, Empty,
                          Empty, NilLoc)
    IN CASE out = "image failed" -> <<image>>
         [] out = "upload failed" -> <<image, upload>>
         [] OTHER -> <<image, upload, video>>

\* variant: a row whose generation fails ends the batch
BatchProcessStopOnError ==
    /\ BatchRunning("process")
    /\ \E out \in {"image failed", "upload failed", "video failed", "ok"} :
         batch' = [batch EXCEPT
            !.log = @ \o ProcessCalls(batch.i, pID, pCity, pCtx, out),
            !.imgURL = IF out = "ok" THEN RowImg(batch.i) ELSE Empty,
            !.vidURL = IF out = "ok" THEN RowVid(batch.i) ELSE Empty,
            !.i = IF out = "ok" THEN @ ELSE @ + 1,
            !.ret = IF out = "ok" THEN @ ELSE "fatal",
            !.pc = IF out = "ok" THEN "save" ELSE "done"]
    /\ UNCHANGED <<runVars, san, jobs, lastWrite, load, imagePrompt, store, now>>

\* processPreset(ctx, gs, ss, pID, pCity, pCtx, 0); an error is logged
BatchProcess ==
    /\ BatchRunning("process")
    /\ \E out \in {"image failed", "upload failed", "video failed", "ok"} :
         batch' = [batch EXCEPT
            !.log = @ \o ProcessCalls(batch.i, pID, pCity, pCtx, out),
            !.imgURL = IF out = "ok" THEN RowImg(batch.i) ELSE Empty,
            !.vidURL = IF out = "ok" THEN RowVid(batch.i) ELSE Empty,
            !.i = IF out = "ok" THEN @ ELSE @ + 1,
            !.pc = IF out = "ok" THEN "save" ELSE "row"]
    /\ UNCHANGED <<runVars, san, jobs, lastWrite, load, imagePrompt, store, now>>

\* the upsert of the generated preset; a failure is logged
BatchSave ==
    /\ BatchRunning("save")
    /\ \E dbOk \in BOOLEAN :
         LET loc == [id |-> pID, name |-> pName, category |-> pCat,
                     cityQuery |-> pCity, imageURL |-> batch.imgURL,
                     videoURL |-> batch.vidURL, isPreset |-> TRUE,
                     lastUpdated |-> 0]
         IN /\ store' = UpsertLocation(store, loc, now, dbOk)
            /\ batch' = [batch EXCEPT
                  !.log = Append(@, LogEntry(batch.i, "UpsertLocation",
                                             ~UpsertErr(loc, dbOk), loc.id,
                                             Empty, Empty, loc)),
                  !.i = @ + 1,
                  !.pc = "row"]
    /\ UNCHANGED <<runVars, san, jobs, lastWrite, load, imagePrompt, now>>

\* the range loop is over
BatchEnd ==
    /\ BatchRunning("row")
    /\ batch.i > Len(batch.records)
    /\ batch' = [batch EXCEPT !.pc = "done", !.ret = "ok"]
    /\ UNCHANGED <<runVars, san, jobs, lastWrite, load, imagePrompt, store, now>>

BatchNext ==
    \/ BatchReadAll
    \/ BatchSkipRow
    \/ BatchCheckExisting
    \/ BatchPatch
    \/ BatchProcess
    \/ BatchSave
    \/ BatchEnd

BatchSpec == BatchInit /\ [][BatchNext]_vars

\* what the log says about row k of the file
IsBatch == batch # << >> /\ batch.kind = "batch"
Skippable(k) == k = 1 \/ Len(batch.file[k]) < 4
RowOps(k) == {n \in 1..Len(batch.log) : batch.log[n].row = k}
LookedUp(k) == \E n \in RowOps(k) : batch.log[n].op = "GetLocation"

\* C24: the header and the rows with fewer than 4 fields cause no lookup, no
\* generation and no upsert; every call made for a row uses fields 1-4 as id,
\* name, city and category and field 5, when the row has one, as context; and
\* when the command has ended, every other row of the file has been looked up.
C24_BatchRows ==
    IsBatch =>
        /\ \A n \in 1..Len(batch.log) :
              LET e == batch.log[n]
                  f == batch.file[e.row]
              IN /\ ~Skippable(e.row)
                 /\ e.id = f[1]
                 /\ e.op = "GenerateImage" =>
                       /\ e.city = f[3]
                       /\ e.ctx = IF Len(f) > 4 THEN f[5] ELSE Empty
                 /\ e.op = "UpsertLocation" =>
                       /\ e.loc.name = f[2]
                       /\ e.loc.category = f[4]
                       /\ e.loc.isPreset
                       /\ e.loc.imageURL = RowImg(e.row) => e.loc.cityQuery = f[3]
        /\ batch.pc = "done" =>
              \A k \in 1..Len(batch.file) : ~Skippable(k) => LookedUp(k)

\* the order of the calls made for one row
After(op) ==
    CASE op = "GetLocation" -> {"UpsertLocation", "GenerateImage"}
      [] op = "GenerateImage" -> {"UploadImage"}
      [] op = "UploadImage" -> {"GenerateVideo"}
      [] op = "GenerateVideo" -> {"UpsertLocation"}
      [] OTHER -> {}

\* C25: the batch is sequential and survives failures.  The calls are made
\* row by row in file order, those of one row in the order lookup, image,
\* upload, video, upsert, a failed call being the last of its row; no failure
\* of a generation or of the store ends the command; every row with 4 or more
\* fields that the loop has passed was looked up, whatever happened to the
\* rows before it, and the command ends only after the last row.
C25_Sequential ==
    IsBatch =>
        /\ \A n \in 1..Len(batch.log) :
              LET e == batch.log[n]
              IN /\ n = 1 => e.op = "GetLocation"
                 /\ n > 1 =>
                      LET d == batch.log[n - 1]
                      IN \/ /\ e.row = d.row
                            /\ e.op \in After(d.op)
                            /\ d.ok \/ d.op = "GetLocation"
                         \/ /\ e.row > d.row
                            /\ e.op = "GetLocation"
        /\ batch.log # << >> => batch.ret # "fatal"
        /\ \A k \in 2..Len(batch.records) :
              (batch.i > k /\ Len(batch.records[k]) >= 4) => LookedUp(k)
        /\ (batch.pc = "done" /\ batch.ret = "ok") => batch.i > Len(batch.records)

C25_Witness ==
    /\ IsBatch
    /\ batch.pc = "done"
    /\ Len(batch.records) = 3
    /\ \E n \in RowOps(2) : batch.log[n].op = "UploadImage" /\ ~batch.log[n].ok
    /\ \E n \in RowOps(3) : batch.log[n].op = "UpsertLocation" /\ batch.log[n].ok
    /\ batch.records[3][1] \in DOMAIN store
    /\ store[batch.records[3][1]].imageURL = RowImg(3)


\* the error events of the run, by position in the trace
ErrorsAt == {i \in 1..Len(trace) : trace[i].t = "event" /\ trace[i].kind = "error"}

\* C31: a run sends at most one error event, and the error event is the last
\* thing the run does: nothing follows it in the trace, neither an event nor
\* a call, and the run has ended.
C31_ErrorIsLast ==
    /\ Cardinality(ErrorsAt) <= 1
    /\ \A i \in ErrorsAt : i = Len(trace) /\ pc = "done"

C31_Witness ==
    /\ pc = "done"
    /\ VideoFailed
    /\ ErrorsAt = {Len(trace)}
    /\ CountKind(Events, "result") = 1
    /\ CountKind(Calls, "UpsertLocation") = 1


\* C32: no step of a run demotes a curated record: a stored record with
\* isPreset = true is still stored after the step, with isPreset = true and
\* with the category it had.
C32_KeepsPreset ==
    \A id \in DOMAIN store :
        store[id].isPreset =>
            /\ id \in DOMAIN store'
            /\ store'[id].isPreset
            /\ store'[id].category = store[id].category

C32_NoDemotion == [][C32_KeepsPreset]_vars


\* C33: VideoReady completes.  The run never aborts, and once GenerateVideo
\* has returned a reference without error and the run is over, the run has
\* sent exactly one video event, made the final upsert with the public URL
\* and returned nil.
C33_VideoReadyCompletes ==
    /\ pc # "panic"
    /\ (Finished /\ videoErr = "none") =>
          /\ ret = "nil"
          /\ CountKind(Events, "video") = 1
          /\ CountKind(Calls, "UpsertLocation") = 2
          /\ currentLoc.videoURL # Empty


\* a finished run that sent a video event: after a generation, or from the
\* cached record
VideoSent(j) ==
    /\ jobs[j].kind = "flow"
    /\ jobs[j].pc = "done"
    /\ \/ Len(jobs[j].upserts) = 2
       \/ /\ jobs[j].calls = << >>
          /\ jobs[j].ret = "nil"
          /\ jobs[j].found
          /\ jobs[j].seen.videoURL # Empty

\* C34: when the operations are runs of GetWeatherFlow for one id, all of
\* them have finished, the store accepted every upsert, and one of the runs
\* sent a video event, the stored record of the id has a videoURL.
C34_VideoSurvives ==
    (/\ jobs # << >>
     /\ \A j \in JobIds :
           /\ jobs[j].kind = "flow"
           /\ jobs[j].pc = "done"
           /\ \A k \in 1..Len(jobs[j].upserts) : jobs[j].upserts[k].ok
     /\ \E j \in JobIds : VideoSent(j))
    => (RioID \in DOMAIN store /\ store[RioID].videoURL # Empty)


\* a finished run that answered from the cache
CacheAnswer(j) ==
    /\ jobs[j].kind = "flow"
    /\ jobs[j].pc = "done"
    /\ jobs[j].ret = "nil"
    /\ jobs[j].found
    /\ jobs[j].calls = << >>

\* C35: content is reused for less than 3 hours.  An image that some
\* operation has read in a record stamped at hour t was generated by hour t;
\* so when a run answers from the cache with that image, the record it
\* answers from, which is not younger than the answer, is stamped less than
\* 3 hours after t.
C35_ReuseWindow ==
    jobs # << >> =>
        \A j \in JobIds : \A k \in JobIds :
            (/\ CacheAnswer(j)
             /\ jobs[k].found
             /\ jobs[k].seen.imageURL = jobs[j].seen.imageURL)
            => jobs[j].seen.lastUpdated - jobs[k].seen.lastUpdated < TTL


\* a finished metadata patch, and a finished run or refresh that stored what
\* it generated
PatchDone(j) ==
    /\ SkipCase(j)
    /\ jobs[j].pc = "done"
    /\ Len(jobs[j].upserts) = 1
    /\ jobs[j].upserts[1].ok
GeneratedAndStored(j) ==
    /\ jobs[j].kind \in {"flow", "refresh"}
    /\ jobs[j].pc = "done"
    /\ jobs[j].id = RioID
    /\ jobs[j].upserts # << >>
    /\ \A k \in 1..Len(jobs[j].upserts) : jobs[j].upserts[k].ok

\* C36: a metadata patch next to a run or a refresh for the same id does not
\* bring older media back: when both have finished and every upsert was
\* accepted, the stored imageURL is the one the run or refresh generated, and
\* so is the videoURL when it generated a video.
C36_PatchKeepsMedia ==
    jobs # << >> =>
        \A p \in JobIds : \A q \in JobIds :
            (PatchDone(p) /\ GeneratedAndStored(q)) =>
                /\ RioID \in DOMAIN store
                /\ store[RioID].imageURL = JobImg(q)
                /\ jobs[q].upserts[Len(jobs[q].upserts)].loc.videoURL = JobVid(q)
                      => store[RioID].videoURL = JobVid(q)


\* a preset job that went into processPreset
GenerationTried(j) ==
    /\ jobs[j].kind \in {"batch", "single"}
    /\ jobs[j].calls # << >>

\* C37: preset generation is all or nothing.  A batch or single job whose
\* image generation, upload or video generation failed makes no upsert; the
\* only upsert of a job that generated carries the image URL and the video
\* URL of that one generation; and no step of such a job changes the store
\* except that upsert.
C37_PresetState ==
    \A j \in JobIds :
        GenerationTried(j) =>
            /\ Len(jobs[j].upserts) <= 1
            /\ (jobs[j].pc = "done" /\ ~AllGenerated(j)) => jobs[j].upserts = << >>
            /\ \A k \in 1..Len(jobs[j].upserts) :
                  /\ AllGenerated(j)
                  /\ jobs[j].upserts[k].loc.imageURL = JobImg(j)
                  /\ jobs[j].upserts[k].loc.videoURL = JobVid(j)

C37_PresetStep ==
    \A j \in JobIds :
        (/\ jobs[j].kind \in {"batch", "single"}
         /\ jobs[j].pc \in {"generate", "write"}
         /\ jobs'[j] # jobs[j]
         /\ store' # store)
        => /\ AllGenerated(j)
           /\ NewUpsert(j) /\ LastUpsert(j).ok
           /\ store'[jobs[j].id].imageURL = JobImg(j)
           /\ store'[jobs[j].id].videoURL = JobVid(j)
           /\ \A id \in DOMAIN store : id # jobs[j].id => store'[id] = store[id]

C37_AllOrNothing == []C37_PresetState /\ [][C37_PresetStep]_vars

C37_Witness ==
    \E j \in JobIds :
        /\ jobs[j].kind = "batch"
        /\ jobs[j].force
        /\ jobs[j].found
        /\ jobs[j].pc = "done"
        /\ jobs[j].calls = <<"GenerateImage", "UploadImage", "GenerateVideo">>
        /\ jobs[j].upserts = << >>
        /\ jobs[3 - j].kind = "single"
        /\ jobs[3 - j].pc = "lookup"
        /\ store[RioID] = jobs[j].seen


\* ---------------------------------------------------------------- GetStats
\* GetStats asks the store three times; between its queries a migration may
\* upsert presets.
CountAll(st) == Cardinality(DOMAIN st)
CountPresets(st) == Cardinality({id \in DOMAIN st : st[id].isPreset})
RECURSIVE MaxStamp(_, _)
MaxStamp(st, ids) ==
    IF ids = {} THEN 0
    ELSE LET id == CHOOSE x \in ids : TRUE
             rest == MaxStamp(st, ids \ {id})
         IN IF st[id].lastUpdated > rest THEN st[id].lastUpdated ELSE rest

StatsInit ==
    /\ IdleRun
    /\ san = << >>
    /\ jobs = << >>
    /\ lastWrite = << >>
    /\ load = << >>
    /\ imagePrompt = << >>
    /\ store \in BatchStores
    /\ now = TTL
    /\ batch = [kind |-> "stats", pc |-> "total", total |-> 0, presets |-> 0,
                TotalLocations |-> 0, Presets |-> 0, UserGenerated |-> 0,
                LastUpdated |-> 0, err |-> "none"]

StatsRunning(at) == batch.kind = "stats" /\ batch.pc = at

\* 1. Total Count
StatsTotal ==
    /\ StatsRunning("total")
    /\ \E ok \in BOOLEAN :
         batch' = IF ok THEN [batch EXCEPT !.total = CountAll(store), !.pc = "presets"]
                  ELSE [batch EXCEPT !.pc = "done", !.err = "failed to count total"]
    /\ UNCHANGED <<runVars, san, jobs, lastWrite, load, imagePrompt, store, now>>

\* 2. Preset Count
StatsPresets ==
    /\ StatsRunning("presets")
    /\ \E ok \in BOOLEAN :
         batch' = IF ok THEN [batch EXCEPT !.presets = CountPresets(store), !.pc = "last"]
                  ELSE [batch EXCEPT !.pc = "done", !.err = "failed to count presets"]
    /\ UNCHANGED <<runVars, san, jobs, lastWrite, load, imagePrompt, store, now>>

\* 3. Most Recent Update, and the Stats returned
StatsLast ==
    /\ StatsRunning("last")
    /\ \E ok \in BOOLEAN :
         batch' = [batch EXCEPT
            !.TotalLocations = batch.total,
            !.Presets = batch.presets,
            !.UserGenerated = batch.total - batch.presets,
            !.LastUpdated = IF ok THEN MaxStamp(store, DOMAIN store) ELSE 0,
            !.pc = "done",
            !.err = "nil"]
    /\ UNCHANGED <<runVars, san, jobs, lastWrite, load, imagePrompt, store, now>>

\* runMigrate, one turn of its loop, while GetStats is under way
MigrateDuringStats ==
    /\ batch.kind = "stats"
    /\ batch.pc # "done"
    /\ \E p \in LegacyPresets, dbOk \in BOOLEAN :
         /\ store' = UpsertLocation(store, MigrateLocation(p), now, dbOk)
         /\ store' # store
    /\ UNCHANGED <<runVars, san, jobs, lastWrite, load, imagePrompt, batch, now>>

StatsNext == StatsTotal \/ StatsPresets \/ StatsLast \/ MigrateDuringStats

StatsSpec == StatsInit /\ [][StatsNext]_vars

\* C38: the Stats that GetStats returns are consistent: UserGenerated is
\* TotalLocations - Presets, Presets lies between 0 and TotalLocations, and
\* UserGenerated is not negative.
C38_StatsConsistent ==
    (batch # << >> /\ batch.kind = "stats" /\ batch.pc = "done" /\ batch.err = "nil") =>
        /\ batch.UserGenerated = batch.TotalLocations - batch.Presets
        /\ 0 <= batch.Presets
        /\ batch.Presets <= batch.TotalLocations
        /\ batch.UserGenerated >= 0


\* ------------------------------------------------- two names, one cache key
\* A run for the canonical name a stores its record; a later run for the
\* canonical name b checks the cache.
MaxNameLen == 2
NameStrings == UNION {[1..n -> Alphabet] : n \in 0..MaxNameLen}

\* currentLoc of a run for the name, as built for the partial upsert
FlowRecord(name) ==
    [id |-> sanitizeID(name), name |-> name, category |-> Empty,
     cityQuery |-> name, imageURL |-> ImgNew, videoURL |-> Empty,
     isPreset |-> FALSE, lastUpdated |-> 0]

NamesInit ==
    /\ IdleRun
    /\ store = EmptyStore
    /\ now = TTL
    /\ jobs = << >>
    /\ lastWrite = << >>
    /\ NoSide
    /\ \E a \in NameStrings, b \in NameStrings :
         san = [a |-> a, b |-> b, pc |-> "first", hit |-> FALSE, served |-> NilLoc]

\* the first run: a miss on the empty store, then the partial upsert
FirstRunStores ==
    /\ san.pc = "first"
    /\ \E dbOk \in BOOLEAN :
         store' = UpsertLocation(store, FlowRecord(san.a), now, dbOk)
    /\ san' = [san EXCEPT !.pc = "second"]
    /\ UNCHANGED <<runVars, sideVars, now, jobs, lastWrite>>

\* the second run: 2. Cache Check
SecondRunChecks ==
    /\ san.pc = "second"
    /\ \E dbOk \in BOOLEAN :
         LET id == sanitizeID(san.b)
             found == GetLocationOk(store, id, dbOk)
             rec == GetLocation(store, id, dbOk)
         IN san' = [san EXCEPT !.hit = IsCacheHit(found, rec, now),
                               !.served = rec,
                               !.pc = "done"]
    /\ UNCHANGED <<runVars, sideVars, store, now, jobs, lastWrite>>

NamesNext == FirstRunStores \/ SecondRunChecks

NamesSpec == NamesInit /\ [][NamesNext]_vars

\* a name with its letters in lower case
LowerCased(s) == [i \in 1..Len(s) |-> ToLowerChar(s[i])]

\* C39: a cache hit serves the record of the requested place: the record
\* that the second run answers from was stored for a name that differs from
\* the requested name by letter case at most.
C39_HitForSamePlace ==
    (san # << >> /\ san.pc = "done" /\ san.hit) =>
        LowerCased(san.served.name) = LowerCased(san.b)


\* ---------------------------------------------------------- HandleGetWeather
\* The HTTP handler carries its own copy of the pipeline (api/handler.go).  It
\* is run here next to GetWeatherFlow: `batch` holds the handler's run (its
\* position, the events sent through sendEvent, its collaborator calls, its
\* locals and the collection it writes to), and each of its collaborator
\* calls gets the answer the same call got in the run of GetWeatherFlow, at
\* the same hour.

\* how far a run is: the video stage of the service is one call for the handler
Stage(p) ==
    CASE p = "start" -> 0
      [] p = "cache" -> 1
      [] p = "genimage" -> 2
      [] p = "upload" -> 3
      [] p = "partial" -> 4
      [] p \in {"submit", "polling", "videoret", "video"} -> 5
      [] p = "final" -> 6
      [] OTHER -> 7

\* the handler has made every call the service has made
InStep == Stage(batch.pc) = Stage(pc)

\* the service has made the next call of the handler
Behind == Stage(batch.pc) < Stage(pc)

\* what the n-th call of one of these kinds returned in the service's run
Outcome(kinds, n) ==
    LET made == SelectSeq(trace, LAMBDA e : e.t = "call" /\ e.kind \in kinds)
    IN n <= Len(made) /\ made[n].ok

flowSide == <<runVars, store, now, san, jobs, lastWrite, load, imagePrompt>>

HandlerInit ==
    /\ pc = "start"
    /\ ret = "none"
    /\ trace = << >>
    /\ store \in InitStores
    /\ now = TTL
    /\ cancelled = FALSE
    /\ cityQuery \in {Empty, QueryRio}
    /\ \E c \in {<<Empty, Empty>>, <<Coord, Coord>>, <<Coord, Empty>>} :
         latStr = c[1] /\ lngStr = c[2]
    /\ storageNil \in BOOLEAN
    /\ formattedCity = Empty
    /\ locID = Empty
    /\ cacheFound = FALSE
    /\ cachedLoc = NilLoc
    /\ checkTime = 0
    /\ currentLoc = NilLoc
    /\ gsURI = Empty
    /\ videoGsURI = Empty
    /\ videoErr = "unset"
    /\ polls = 0
    /\ pollFailed = FALSE
    /\ lastPoll = "none"
    /\ lastResp = NoResp
    /\ san = << >>
    /\ jobs = << >>
    /\ lastWrite = << >>
    /\ load = << >>
    /\ imagePrompt = << >>
    /\ batch = [kind |-> "handler", pc |-> "start", trace |-> << >>,
                store |-> store, formattedCity |-> Empty, locID |-> Empty,
                currentLoc |-> NilLoc]

\* city, lat, lng of the query string; h.Maps resolves the place
HandlerResolve ==
    /\ batch.pc = "start"
    /\ Behind
    /\ LET useCoords == latStr # Empty /\ lngStr # Empty
           city == IF cityQuery = Empty THEN DefaultCity ELSE cityQuery
           ok == Outcome({"GetReverseGeocoding", "GetCityLocation"}, 1)
           call == IF useCoords THEN Call("GetReverseGeocoding", latStr, ok)
                   ELSE Call("GetCityLocation", city, ok)
       IN batch' = IF ok
                   THEN [batch EXCEPT !.trace = @ \o <<Status, call, Status>>,
                                      !.formattedCity = formattedCity,
                                      !.pc = "cache"]
                   ELSE [batch EXCEPT !.trace = @ \o <<Status, call, ErrorEv>>,
                                      !.pc = "done"]
    /\ UNCHANGED flowSide

\* --- CACHE CHECK ---
HandlerCacheCheck ==
    /\ batch.pc = "cache"
    /\ Behind
    /\ LET id == sanitizeID(batch.formattedCity)
           dbOk == Outcome({"GetLocation"}, 1)
           found == GetLocationOk(batch.store, id, dbOk)
           rec == GetLocation(batch.store, id, dbOk)
           get == Call("GetLocation", id, found)
       IN batch' = IF IsCacheHit(found, rec, now)
                   THEN [batch EXCEPT !.locID = id,
                                      !.trace = @ \o <<get>> \o
                                                HitEvents(batch.formattedCity, rec),
                                      !.pc = "done"]
                   ELSE [batch EXCEPT !.locID = id,
                                      !.trace = @ \o <<get, Status>>,
                                      !.pc = "genimage"]
    /\ UNCHANGED flowSide

\* 2. Generate Image, sent to the frontend at once; 3. stop without storage
HandlerGenerateImage ==
    /\ batch.pc = "genimage"
    /\ Behind
    /\ LET ok == Outcome({"GenerateImage"}, 1)
           call == Call("GenerateImage", batch.formattedCity, ok)
           result == ResultEv(batch.formattedCity, Base64Data, Empty, now)
       IN batch' = IF ~ok
                   THEN [batch EXCEPT !.trace = @ \o <<call, ErrorEv>>,
                                      !.pc = "done"]
                   ELSE IF storageNil
                   THEN [batch EXCEPT !.trace = @ \o <<call, result>>,
                                      !.pc = "done"]
                   ELSE [batch EXCEPT !.trace = @ \o <<call, result, Status>>,
                                      !.pc = "upload"]
    /\ UNCHANGED flowSide

\* Upload Image; the record of the partial save has no LastUpdated of its own
HandlerUpload ==
    /\ batch.pc = "upload"
    /\ Behind
    /\ LET ok == Outcome({"UploadImage"}, 1)
           call == Call("UploadImage", Base64Data, ok)
       IN batch' = IF ~ok
                   THEN [batch EXCEPT !.trace = @ \o <<call>>,
                                      !.pc = "done"]
                   ELSE [batch EXCEPT !.trace = @ \o <<call>>,
                                      !.pc = "partial",
                                      !.currentLoc =
                                        [id |-> batch.locID,
                                         name |-> batch.formattedCity,
                                         category |-> Empty,
                                         cityQuery |-> batch.formattedCity,
                                         imageURL |-> ImgNew, videoURL |-> Empty,
                                         isPreset |-> FALSE, lastUpdated |-> 0]]
    /\ UNCHANGED flowSide

\* Upsert DB with Image URL (Partial Save)
HandlerPartialUpsert ==
    /\ batch.pc = "partial"
    /\ Behind
    /\ LET dbOk == Outcome({"UpsertLocation"}, 1)
       IN batch' = [batch EXCEPT
                      !.store = UpsertLocation(@, batch.currentLoc, now, dbOk),
                      !.trace = @ \o <<UpsertCall(batch.currentLoc, dbOk), Status>>,
                      !.pc = "video"]
    /\ UNCHANGED flowSide

\* variant: the handler publishes the reference of the video as it came
HandlerVideoRawURL ==
    /\ batch.pc = "video"
    /\ Behind
    /\ LET call == Call("GenerateVideo", gsURI, TRUE)
       IN batch' = IF videoErr # "none"
                   THEN [batch EXCEPT !.trace = @ \o <<call, ErrorEv>>,
                                      !.pc = "done"]
                   ELSE [batch EXCEPT !.trace = @ \o <<call, Status, VideoEv(videoGsURI)>>,
                                      !.pc = "final"]
    /\ UNCHANGED flowSide

\* Call Veo; the reference is cut after gs:// and sent as the video event
HandlerVideo ==
    /\ batch.pc = "video"
    /\ Behind
    /\ LET call == Call("GenerateVideo", gsURI, TRUE)
       IN batch' = IF videoErr # "none"
                   THEN [batch EXCEPT !.trace = @ \o <<call, ErrorEv>>,
                                      !.pc = "done"]
                   ELSE IF ~SliceOk(videoGsURI)
                   THEN [batch EXCEPT !.trace = @ \o <<call, Status>>,
                                      !.pc = "panic"]
                   ELSE [batch EXCEPT !.trace = @ \o <<call, Status,
                                                       VideoEv(PublicVideoURL(videoGsURI))>>,
                                      !.pc = "final"]
    /\ UNCHANGED flowSide

\* Final Upsert with Video URL
HandlerFinalUpsert ==
    /\ batch.pc = "final"
    /\ Behind
    /\ LET dbOk == Outcome({"UpsertLocation"}, 2)
           loc == [batch.currentLoc EXCEPT !.videoURL = PublicVideoURL(videoGsURI)]
       IN batch' = [batch EXCEPT !.currentLoc = loc,
                                 !.store = UpsertLocation(@, loc, now, dbOk),
                                 !.trace = @ \o <<UpsertCall(loc, dbOk)>>,
                                 !.pc = "done"]
    /\ UNCHANGED flowSide

HandleGetWeather ==
    \/ HandlerResolve
    \/ HandlerCacheCheck
    \/ HandlerGenerateImage
    \/ HandlerUpload
    \/ HandlerPartialUpsert
    \/ HandlerVideo
    \/ HandlerFinalUpsert

HandlerNext ==
    \/ InStep /\ Flow
    \/ InStep /\ Cancel
    \/ InStep /\ ClockTick
    \/ HandleGetWeather

HandlerSpec == HandlerInit /\ [][HandlerNext]_vars

\* what the client received, and the reads and writes of the collection
EventsIn(tr) == SelectSeq(tr, LAMBDA e : e.t = "event")
StoreOpsIn(tr) ==
    SelectSeq(tr, LAMBDA e : e.t = "call" /\ e.kind \in {"GetLocation", "UpsertLocation"})

\* the fields of a written document the two pipelines are compared on
Written(loc) ==
    [id |-> loc.id, name |-> loc.name, cityQuery |-> loc.cityQuery,
     imageURL |-> loc.imageURL, videoURL |-> loc.videoURL, isPreset |-> loc.isPreset]

BothEnded == batch # << >> /\ batch.kind = "handler" /\ InStep /\ ~Running

\* C40: for the same request and the same answers of the collaborators the
\* handler's pipeline and GetWeatherFlow end in the same way (both return or
\* both panic), have sent the same events with the same payloads in the same
\* order, have made the same reads and upserts of the collection in the same
\* order, and have written the same documents (id, name, cityQuery, imageURL,
\* videoURL, isPreset) under the same ids.
C40_HandlerEquivalent ==
    BothEnded =>
      /\ batch.pc = pc
      /\ EventsIn(batch.trace) = EventsIn(trace)
      /\ StoreOpsIn(batch.trace) = StoreOpsIn(trace)
      /\ Written(batch.currentLoc) = Written(currentLoc)
      /\ DOMAIN batch.store = DOMAIN store
      /\ \A id \in DOMAIN store : Written(batch.store[id]) = Written(store[id])

\* both pipelines ran to the final upsert, with a video event and two writes
C40_Witness ==
    /\ BothEnded
    /\ pc = "done"
    /\ Len(StoreOpsIn(batch.trace)) = 3
    /\ \E i \in 1..Len(batch.trace) : batch.trace[i].kind = "video"
    /\ batch.currentLoc.videoURL # Empty

====
